---- MODULE Spec2Model ----
(***************************************************************************)
(* State-machine model of the todo-app server (src/server.py): the task    *)
(* store and the auto-task merger, the processed-message ledger, the three *)
(* source scanners and the scan orchestrator.                              *)
(*                                                                         *)
(* Strings are sequences of one-character strings, so that str.strip(),    *)
(* str.lower(), date.isoformat() and Python's string comparison are        *)
(* computed, not assumed.  None and the empty string are both the empty    *)
(* sequence where the code treats them alike (`x or None`, `x or ''`).     *)
(***************************************************************************)
EXTENDS Integers, Sequences, FiniteSets, TLC

\* ------------------------------------------------------------------------
\* Bounds of the model
\* ------------------------------------------------------------------------
MaxCalls == 2      \* add_auto_task calls made by abstract callers in SpecMerge
MaxTicks == 1      \* midnights that pass during a behaviour
MaxRuns  == 2      \* run_scan invocations (threads) in a behaviour
MaxMsgs  == 2      \* messages the scanners retrieve, all scanners together
MaxPosts == 1      \* POST /api/scan requests answered 'Scan already in progress'
MaxFileOps == 3    \* load_tasks and save_tasks calls in a behaviour
MaxCrashes == 1    \* times the process is killed and started again
MaxItems == 2      \* files queue_for_ingestion creates in a behaviour
MaxPolls == 2      \* process_ingest_queue calls of the companion's main loop
MaxHangMsgs == 1   \* messages a scanner that may hang retrieves in SpecHang
MaxMarked == 3     \* mark_processed calls in SpecLedger
MaxRepeats == 2    \* times the same message text arrives in SpecExtract
ScaledCap == 2     \* the ledger cap in SpecLedger, scaled down from 10000

\* ------------------------------------------------------------------------
\* Strings
\* ------------------------------------------------------------------------
Range(f) == {f[i] : i \in DOMAIN f}

\* a string literal as the sequence of its characters
Chars(str) == [i \in 1..Len(str) |-> SubSeq(str, i, i)]

UpperAlpha == Chars("ABCDEFGHIJKLMNOPQRSTUVWXYZ")

LowerAlpha == Chars("abcdefghijklmnopqrstuvwxyz")

\* str.lower() on one character
LowerChar(c) ==
  IF c \in Range(UpperAlpha)
  THEN LowerAlpha[CHOOSE i \in DOMAIN UpperAlpha : UpperAlpha[i] = c] ELSE c

\* str.upper() on one character
UpperChar(c) ==
  IF c \in Range(LowerAlpha)
  THEN UpperAlpha[CHOOSE i \in DOMAIN LowerAlpha : LowerAlpha[i] = c] ELSE c

Lower(s) == [i \in DOMAIN s |-> LowerChar(s[i])]

\* the character classes \w, \s and \d of Python's re, on ASCII text
WordChars == Range(UpperAlpha) \cup Range(LowerAlpha) \cup Range(Chars("0123456789_"))

SpaceChars == Range(Chars(" \t\n\r"))

Digits == Range(Chars("0123456789"))

IsSpace(c) == c \in SpaceChars

RECURSIVE LStrip(_)
LStrip(s) ==
  IF s # <<>> /\ IsSpace(Head(s)) THEN LStrip(Tail(s)) ELSE s

RECURSIVE RStrip(_)
RStrip(s) ==
  IF s # <<>> /\ IsSpace(s[Len(s)]) THEN RStrip(SubSeq(s, 1, Len(s) - 1)) ELSE s

\* str.strip()
Strip(s) == RStrip(LStrip(s))

\* Code point order of the characters that occur in ISO dates
CharOrd(c) ==
  CASE c = "-" -> 45
    [] c = "0" -> 48 [] c = "1" -> 49 [] c = "2" -> 50 [] c = "3" -> 51
    [] c = "4" -> 52 [] c = "5" -> 53 [] c = "6" -> 54 [] c = "7" -> 55
    [] c = "8" -> 56 [] c = "9" -> 57

\* Python's `a > b` on two strings: lexicographic by code point
RECURSIVE StrGreater(_, _)
StrGreater(a, b) ==
  IF a = <<>> THEN FALSE
  ELSE IF b = <<>> THEN TRUE
  ELSE IF Head(a) # Head(b) THEN CharOrd(Head(a)) > CharOrd(Head(b))
  ELSE StrGreater(Tail(a), Tail(b))

\* ------------------------------------------------------------------------
\* Regular expressions: the patterns of the source as syntax trees, matched
\* the way Python's re matches them (leftmost start, alternatives in order,
\* greedy repetition, backtracking), so that groups come out as they do in
\* the code.  Flags: "I" for re.IGNORECASE, "M" for re.MULTILINE.
\* ------------------------------------------------------------------------
Lit(str) == [k |-> "lit", s |-> Chars(str), ls |-> Lower(Chars(str))]

Cls(cs) == [k |-> "cls", cs |-> cs, lcs |-> {LowerChar(y) : y \in cs}, neg |-> FALSE]

NotCls(cs) == [k |-> "cls", cs |-> cs, lcs |-> {LowerChar(y) : y \in cs}, neg |-> TRUE]

Cat(rs) == [k |-> "cat", rs |-> rs]

Alt(rs) == [k |-> "alt", rs |-> rs]

\* no upper limit of a repetition
Inf == 0 - 1

Rep(r, lo, hi) == [k |-> "rep", r |-> r, lo |-> lo, hi |-> hi]

Opt(r) == Rep(r, 0, 1)

Star(r) == Rep(r, 0, Inf)

Plus(r) == Rep(r, 1, Inf)

\* capturing group number n
Grp(n, r) == [k |-> "grp", n |-> n, r |-> r]

\* \b, ^ and $
WordB == [k |-> "b"]

Bol == [k |-> "bol"]

Eol == [k |-> "eol"]

\* [...] with the characters of str, and the three escapes
Of(str) == Cls(Range(Chars(str)))

Wd == Cls(WordChars)

Sp == Cls(SpaceChars)

Dg == Cls(Digits)

\* (?:a|b|...) over literal words
Words(strs) == Alt([n \in DOMAIN strs |-> Lit(strs[n])])

\* the literal words joined by \s+
Spaced(strs) ==
  Cat([n \in 1..(2 * Len(strs) - 1) |->
        IF n % 2 = 1 THEN Lit(strs[(n + 1) \div 2]) ELSE Plus(Sp)])

\* the matches of r in m.s that start at position i, best first; each is
\* [e, c]: the position after the match and the groups as <<start, end>>
RECURSIVE Run(_, _, _, _), Chain(_, _, _)
Run(r, m, i, c) ==
  LET s == m.s
      ic == "I" \in m.flags
      in(p, cl) == (s[p] \in (IF ic THEN cl.lcs ELSE cl.cs)) # cl.neg
      hit(e) == <<[e |-> e, c |-> c]>>
      isw(p) == p >= 1 /\ p <= Len(s) /\ s[p] \in WordChars
  IN  CASE r.k = "lit" ->
             IF /\ i + Len(r.s) - 1 <= Len(s)
                /\ SubSeq(s, i, i + Len(r.s) - 1) = (IF ic THEN r.ls ELSE r.s)
             THEN hit(i + Len(r.s)) ELSE <<>>
        [] r.k = "cls" -> IF i <= Len(s) /\ in(i, r) THEN hit(i + 1) ELSE <<>>
        [] r.k = "cat" ->
             IF r.rs = <<>> THEN hit(i)
             ELSE Chain(Run(Head(r.rs), m, i, c), Cat(Tail(r.rs)), m)
        [] r.k = "alt" ->
             IF r.rs = <<>> THEN <<>>
             ELSE Run(Head(r.rs), m, i, c) \o Run(Alt(Tail(r.rs)), m, i, c)
        [] r.k = "rep" /\ r.r.k = "cls" ->
             LET lim  == IF r.hi = Inf \/ i + r.hi - 1 > Len(s) THEN Len(s) ELSE i + r.hi - 1
                 top  == IF \A p \in i..lim : in(p, r.r) THEN lim + 1
                         ELSE CHOOSE p \in i..lim :
                                ~in(p, r.r) /\ \A q \in i..(p - 1) : in(q, r.r)
             IN  IF top < i + r.lo THEN <<>>
                 ELSE [n \in 1..(top - (i + r.lo) + 1) |-> [e |-> top - n + 1, c |-> c]]
        [] r.k = "rep" /\ r.r.k # "cls" ->
             (IF r.hi = 0 THEN <<>>
              ELSE Chain(SelectSeq(Run(r.r, m, i, c), LAMBDA h : h.e > i),
                         Rep(r.r, IF r.lo > 0 THEN r.lo - 1 ELSE 0,
                                  IF r.hi = Inf THEN Inf ELSE r.hi - 1), m))
             \o (IF r.lo = 0 THEN hit(i) ELSE <<>>)
        [] r.k = "grp" ->
             LET hs == Run(r.r, m, i, c)
             IN  [n \in DOMAIN hs |-> [hs[n] EXCEPT !.c = (r.n :> <<i, hs[n].e>>) @@ @]]
        [] r.k = "b" -> IF isw(i - 1) # isw(i) THEN hit(i) ELSE <<>>
        [] r.k = "bol" ->
             IF i = 1 \/ ("M" \in m.flags /\ s[i - 1] = "\n") THEN hit(i) ELSE <<>>
        [] r.k = "eol" ->
             IF \/ i = Len(s) + 1
                \/ i = Len(s) /\ s[i] = "\n"
                \/ "M" \in m.flags /\ s[i] = "\n"
             THEN hit(i) ELSE <<>>
Chain(hs, r, m) ==
  IF hs = <<>> THEN <<>>
  ELSE IF Len(hs) = 1 THEN Run(r, m, hs[1].e, hs[1].c)
  ELSE LET h == Len(hs) \div 2
       IN  Chain(SubSeq(hs, 1, h), r, m) \o Chain(SubSeq(hs, h + 1, Len(hs)), r, m)

NoMatch == [ok |-> FALSE, a |-> 0, e |-> 0, c |-> <<>>]

\* the least number of a set of positions, 0 for the empty set
Least(ps) == IF ps = {} THEN 0 ELSE CHOOSE i \in ps : \A j \in ps : i <= j

\* the subject of a search: lowered once when case is ignored
Subject(s, flags) == [s |-> IF "I" \in flags THEN Lower(s) ELSE s, flags |-> flags]

AsMatch(a, h) == [ok |-> TRUE, a |-> a, e |-> h.e, c |-> h.c]

\* the best match of r that starts at position a, none for a = 0
MatchAt(r, m, a) == IF a = 0 THEN NoMatch ELSE AsMatch(a, Head(Run(r, m, a, <<>>)))

\* the leftmost match of r in the subject m that starts at from or later
SearchIn(r, m, from) ==
  MatchAt(r, m, Least({i \in from..(Len(m.s) + 1) : Run(r, m, i, <<>>) # <<>>}))

\* pattern.search(s, from - 1): [ok, a, e, c], the match from a to e - 1
Search(r, s, flags, from) == SearchIn(r, Subject(s, flags), from)

\* bool(re.search(r, s, flags))
Found(r, s, flags) == Search(r, s, flags, 1).ok

\* the text of group n of match mt in s, the empty sequence if it did not take part
Group(mt, s, n) ==
  IF n \in DOMAIN mt.c THEN SubSeq(s, mt.c[n][1], mt.c[n][2] - 1) ELSE <<>>

\* re.sub(r, with, s, flags) for a pattern that matches no empty string
RECURSIVE SubFrom(_, _, _, _, _), SubAfter(_, _, _, _, _, _)
SubFrom(r, with, s, flags, from) == SubAfter(r, with, s, flags, from, Search(r, s, flags, from))

SubAfter(r, with, s, flags, from, mt) ==
  IF ~mt.ok THEN SubSeq(s, from, Len(s))
  ELSE SubSeq(s, from, mt.a - 1) \o with \o SubFrom(r, with, s, flags, mt.e)

\* ------------------------------------------------------------------------
\* Dates: <<year, month, day>>
\* ------------------------------------------------------------------------
IsLeap(y) == (y % 4 = 0 /\ y % 100 # 0) \/ y % 400 = 0

DaysInMonth(y, m) ==
  IF m = 2 THEN (IF IsLeap(y) THEN 29 ELSE 28)
  ELSE IF m \in {4, 6, 9, 11} THEN 30 ELSE 31

NextDay(d) ==
  IF d[3] < DaysInMonth(d[1], d[2]) THEN <<d[1], d[2], d[3] + 1>>
  ELSE IF d[2] < 12 THEN <<d[1], d[2] + 1, 1>>
  ELSE <<d[1] + 1, 1, 1>>

\* calendar order of two dates
DateAfter(a, b) ==
  \/ a[1] > b[1]
  \/ a[1] = b[1] /\ a[2] > b[2]
  \/ a[1] = b[1] /\ a[2] = b[2] /\ a[3] > b[3]

Digit(n) == SubSeq(<<"0", "1", "2", "3", "4", "5", "6", "7", "8", "9">>, n + 1, n + 1)

\* zero-padded decimal of n in w digits
RECURSIVE Pad(_, _)
Pad(n, w) == IF w = 0 THEN <<>> ELSE Pad(n \div 10, w - 1) \o Digit(n % 10)

\* date.isoformat(): YYYY-MM-DD
IsoFormat(d) == Pad(d[1], 4) \o <<"-">> \o Pad(d[2], 2) \o <<"-">> \o Pad(d[3], 2)

\* the day before d
PrevDay(d) ==
  IF d[3] > 1 THEN <<d[1], d[2], d[3] - 1>>
  ELSE IF d[2] > 1 THEN <<d[1], d[2] - 1, DaysInMonth(d[1], d[2] - 1)>>
  ELSE <<d[1] - 1, 12, 31>>

\* d + datetime.timedelta(days=n)
RECURSIVE PlusDays(_, _)
PlusDays(d, n) ==
  IF n = 0 THEN d
  ELSE IF n > 0 THEN PlusDays(NextDay(d), n - 1) ELSE PlusDays(PrevDay(d), n + 1)

\* date.weekday(): Monday is 0; from the proleptic Gregorian ordinal
Weekday(d) ==
  LET y == d[1] - 1
      RECURSIVE before(_)
      before(m) == IF m = 1 THEN 0 ELSE before(m - 1) + DaysInMonth(d[1], m - 1)
      ordinal == 365 * y + (y \div 4) - (y \div 100) + (y \div 400) + before(d[2]) + d[3]
  IN  (ordinal + 6) % 7

\* whether datetime.date(y, m, d) is a date; the constructor raises
\* ValueError otherwise
ValidDate(y, m, d) ==
  /\ y >= 1 /\ y <= 9999
  /\ m >= 1 /\ m <= 12
  /\ d >= 1 /\ d <= DaysInMonth(y, m)

\* int(s) for a string of digits
RECURSIVE ToInt(_)
ToInt(s) ==
  IF s = <<>> THEN 0
  ELSE 10 * ToInt(SubSeq(s, 1, Len(s) - 1))
       + (CHOOSE n \in 0..9 : Digit(n) = <<s[Len(s)]>>)


\* ------------------------------------------------------------------------
\* Input pools
\* ------------------------------------------------------------------------
Kinds == {"email", "slack", "gong"}

\* scanner threads: the thread run_scan number r starts for scanner k
Threads == (1..MaxRuns) \X Kinds

\* candidate texts: empty, blank, and texts that differ in case or in
\* surrounding blanks only
TextPool == {<<>>, <<" ">>, <<"a">>, <<"A">>, <<" ", "a">>, <<"b">>}

StartDate == <<2026, 12, 31>>

\* candidate due dates as the extractor returns them: None (the empty
\* sequence) or an ISO date string
DuePool == {<<>>, IsoFormat(<<2026, 12, 31>>), IsoFormat(<<2027, 1, 1>>),
            IsoFormat(<<2027, 1, 2>>)}

Item(text, due, priority) == [text |-> text, due_date |-> due, priority |-> priority]

\* candidates handed to add_auto_task: every due-date case for one text,
\* the text variants with some of them, both kinds of priority value
ItemPool ==
  {Item(<<>>, <<>>, "high"),
   Item(<<" ">>, IsoFormat(<<2027, 1, 1>>), "high"),
   Item(<<"a">>, <<>>, "high"),
   Item(<<"a">>, IsoFormat(<<2026, 12, 31>>), "urgent"),
   Item(<<"a">>, IsoFormat(<<2027, 1, 1>>), "low"),
   Item(<<"A">>, IsoFormat(<<2027, 1, 2>>), "high"),
   Item(<<" ", "a">>, <<>>, "urgent"),
   Item(<<"b">>, IsoFormat(<<2027, 1, 1>>), "medium"),
   Item(<<"b">>, <<>>, "urgent")}

\* ------------------------------------------------------------------------
\* State
\* ------------------------------------------------------------------------
VARIABLES
  clock,      \* [today, ticks]: the current date and the midnights passed
  store,      \* content of tasks.json: [today, longterm], two task lists
  nextId,     \* source of the fresh ids uid() returns
  pc,         \* position of every scanner thread
  pending,    \* per thread: the candidates still to be merged (the for loop)
  loc,        \* per thread: the locals of its add_auto_task call
  calls,      \* number of candidate lists handed to abstract callers
  dupSkips,   \* number of '[auto-add] duplicate skipped' lines in the log
  last,       \* the most recently returned add_auto_task call
  saves,      \* the last two save_tasks calls made by add_auto_task
  env,        \* the scanners whose credentials .env configures
  processed,  \* _processed: the in-memory ledger of composite message ids
  processedFile, \* the ids persisted in processed.json
  queue,      \* the ingest queue: composite ids of the messages queued, in order
  scn,        \* per scanner thread: [n, pos, cur, seen, outcome, sender, subject]
  marks,      \* per scanner thread: how often it called mark_processed per id
  fresh,      \* per scanner thread: ids it evaluated that the ledger did not hold
  failed,     \* per scanner thread: ids whose processing raised an exception
  lock,       \* _scan_lock: 0 when free, else the run_scan thread holding it
  status,     \* _scan_status['state']
  run,        \* per run_scan thread: [pc, manual, j]
  timers,     \* pending threading.Timer objects that will call run_scan
  posts,      \* POST /api/scan requests rejected because the lock was held
  trigger,    \* whether the .scan-trigger file has been written
  files,      \* tasks.json, its .tmp and its .corrupt: [exists, content] as text
  fio,        \* the load_tasks or save_tasks call holding _task_lock, if any
  inq,        \* .ingest-queue: per item name its [suffix, text]
  comp,       \* scan-companion.py: [pc, items, i, polls, handed, reads]
  mk,         \* per thread: its mark_processed call in steps, [pc, pid, items]
  led,        \* [held, calls]: whether _proc_lock is held; calls started
  ex          \* the extractor: what it was last called with and what it did

mergeVars == <<clock, store, nextId, pc, pending, loc, calls, dupSkips, last, saves>>

scanVars == <<env, processed, processedFile, queue, scn, marks, fresh, failed>>

orchVars == <<lock, status, run, timers, posts, trigger>>

\* the files of the task store, seen as text
fileVars == <<files, fio>>

\* state the merger, the scanners and the orchestrator leave alone
\* the ingest queue directory and the companion process that consumes it
compVars == <<inq, comp>>

\* mark_processed taken step by step
ledVars == <<mk, led>>

auxVars == <<fileVars, compVars, ledVars, ex>>

vars == <<mergeVars, scanVars, orchVars, auxVars>>

EmptyStore == [today |-> <<>>, longterm |-> <<>>]

NoTask == [id |-> 0, text |-> <<>>, priority |-> "", due |-> <<>>,
           done |-> FALSE, auto |-> FALSE, source |-> ""]

NoLoc == [raw |-> <<>>, text |-> <<>>, due |-> <<>>, priority |-> "",
          today_str |-> <<>>, col |-> "", snap |-> EmptyStore, task |-> NoTask]

NoLast == [n |-> 0, raw |-> <<>>, store |-> EmptyStore, skips |-> 0]

\* a task the user created by hand before the behaviour starts
UserTask == [id |-> 0, text |-> <<"B">>, priority |-> "low", due |-> <<>>,
             done |-> FALSE, auto |-> FALSE, source |-> ""]

AllTasks(tasks) == tasks.today \o tasks.longterm

\* ------------------------------------------------------------------------
\* add_auto_task
\* ------------------------------------------------------------------------
\* priority normalisation
NormPriority(p) == IF p \in {"high", "medium", "low"} THEN p ELSE "medium"

ColumnAtOrAfter(due_date, today_str) ==
  IF due_date # <<>> /\ ~StrGreater(today_str, due_date)
  THEN "longterm" ELSE "today"

\* col = 'longterm' if (due_date and due_date > today_str) else 'today'
Column(due_date, today_str) ==
  IF due_date # <<>> /\ StrGreater(due_date, today_str)
  THEN "longterm" ELSE "today"

IsDuplicateExact(text, tasks) ==
  text \in {t.text : t \in Range(AllTasks(tasks))}

IsDuplicateTodayOnly(text, tasks) ==
  Lower(text) \in {Lower(t.text) : t \in Range(tasks.today)}

\* text.lower() in {t['text'].lower() for both columns}
IsDuplicate(text, tasks) ==
  Lower(text) \in {Lower(t.text) : t \in Range(AllTasks(tasks))}

NewTask(t, id) ==
  [id |-> id, text |-> loc[t].text, priority |-> loc[t].priority,
   due |-> loc[t].due, done |-> FALSE, auto |-> TRUE, source |-> t[2]]

PrependTo(tasks, col, task) == [tasks EXCEPT ![col] = <<task>> \o @]

\* tasks[col].append(task)
AppendTo(tasks, col, task) == [tasks EXCEPT ![col] = Append(@, task)]

SavedStoreMerging(t) == AppendTo(store, loc[t].col, loc[t].task)

\* what add_auto_task writes: the snapshot it loaded plus its own task
SavedStore(t) == AppendTo(loc[t].snap, loc[t].col, loc[t].task)

\* the record of a call that returns: its number, the text it was given,
\* the store and the number of duplicate-skip lines it leaves behind
Returned(raw, st, skips) ==
  [n |-> last.n + 1, raw |-> raw, store |-> st, skips |-> skips]

\* an abstract caller obtains one candidate to merge
Candidate(t) ==
  /\ pc[t] = "items"
  /\ pending[t] = <<>>
  /\ calls < MaxCalls
  /\ \E item \in ItemPool : pending' = [pending EXCEPT ![t] = <<item>>]
  /\ calls' = calls + 1
  /\ UNCHANGED <<clock, store, nextId, pc, loc, dupSkips, last, saves>>
  /\ UNCHANGED <<scanVars, orchVars>>
  /\ UNCHANGED auxVars

\* add_auto_task up to load_tasks: strip, reject empty text, choose the column
AddCallStep(t) ==
  /\ pc[t] = "items"
  /\ pending[t] # <<>>
  /\ LET item == Head(pending[t])
         text == Strip(item.text)
     IN  /\ pending' = [pending EXCEPT ![t] = Tail(@)]
         /\ IF text = <<>>
            THEN UNCHANGED <<pc, loc>>
            ELSE /\ pc' = [pc EXCEPT ![t] = "add_load"]
                 /\ loc' = [loc EXCEPT ![t] =
                      [NoLoc EXCEPT !.raw = item.text, !.text = text,
                                    !.due = item.due_date,
                                    !.priority = NormPriority(item.priority),
                                    !.today_str = IsoFormat(clock.today),
                                    !.col = Column(item.due_date, IsoFormat(clock.today))]]
  /\ UNCHANGED <<clock, store, nextId, calls, dupSkips>>
  /\ UNCHANGED <<scanVars, orchVars>>
  /\ UNCHANGED auxVars

\* load_tasks, the duplicate check and the append to the loaded copy
AddLoadStep(t) ==
  /\ pc[t] = "add_load"
  /\ IF IsDuplicate(loc[t].text, store)
     THEN /\ dupSkips' = dupSkips + 1
          /\ pc' = [pc EXCEPT ![t] = "items"]
          /\ loc' = [loc EXCEPT ![t] = NoLoc]
          /\ UNCHANGED nextId
     ELSE /\ loc' = [loc EXCEPT ![t].snap = store, ![t].task = NewTask(t, nextId)]
          /\ nextId' = nextId + 1
          /\ pc' = [pc EXCEPT ![t] = "add_save"]
          /\ UNCHANGED dupSkips
  /\ UNCHANGED <<clock, store, pending, calls>>
  /\ UNCHANGED <<scanVars, orchVars>>
  /\ UNCHANGED auxVars

\* save_tasks(tasks)
AddSaveStep(t) ==
  /\ pc[t] = "add_save"
  /\ store' = SavedStore(t)
  /\ pc' = [pc EXCEPT ![t] = "items"]
  /\ loc' = [loc EXCEPT ![t] = NoLoc]
  /\ UNCHANGED <<clock, nextId, pending, calls, dupSkips>>
  /\ UNCHANGED <<scanVars, orchVars>>
  /\ UNCHANGED auxVars

\* the three steps of add_auto_task as a scanner takes them
AddCall(t) == AddCallStep(t) /\ UNCHANGED <<last, saves>>

AddLoad(t) == AddLoadStep(t) /\ UNCHANGED <<last, saves>>

AddSave(t) == AddSaveStep(t) /\ UNCHANGED <<last, saves>>

\* the same steps, with the returned calls and the saves recorded
MergeCall(t) ==
  /\ AddCallStep(t)
  /\ last' = IF Strip(Head(pending[t]).text) = <<>>
             THEN Returned(Head(pending[t]).text, store, dupSkips) ELSE last
  /\ UNCHANGED saves

MergeLoad(t) ==
  /\ AddLoadStep(t)
  /\ last' = IF IsDuplicate(loc[t].text, store)
             THEN Returned(loc[t].raw, store, dupSkips + 1) ELSE last
  /\ UNCHANGED saves

MergeSave(t) ==
  /\ AddSaveStep(t)
  /\ saves' = (IF saves = <<>> THEN <<>> ELSE <<saves[Len(saves)]>>)
               \o <<[snap |-> loc[t].snap, task |-> loc[t].task, col |-> loc[t].col]>>
  /\ last' = Returned(loc[t].raw, store', dupSkips)

\* midnight passes
Tick ==
  /\ clock.ticks < MaxTicks
  /\ clock' = [today |-> NextDay(clock.today), ticks |-> clock.ticks + 1]
  /\ UNCHANGED <<store, nextId, pc, pending, loc, calls, dupSkips, last, saves>>
  /\ UNCHANGED <<scanVars, orchVars>>
  /\ UNCHANGED auxVars

\* ------------------------------------------------------------------------
\* The task store as files: load_tasks and save_tasks
\* ------------------------------------------------------------------------
\* DATA_FILE
DataFile == "tasks.json"

WriteInPlace == "tasks.json"

\* DATA_FILE.with_suffix('.json.tmp')
TmpFile == "tasks.json.tmp"

\* DATA_FILE.with_suffix('.json.corrupt')
BackupFile == "tasks.json.corrupt"

Paths == {DataFile, TmpFile, BackupFile}

Absent == [exists |-> FALSE, content |-> <<>>]

File(content) == [exists |-> TRUE, content |-> content]

\* JSON values: a dict with some of the keys 'today' and 'longterm', or a
\* list; tasks are the strings "a" and "b"
Dict(keys, todayIsList, today, longterm) ==
  [kind |-> "dict", keys |-> keys, todayIsList |-> todayIsList,
   today |-> today, longterm |-> longterm]

\* {'today': [...], 'longterm': [...]}
Data(today, longterm) == Dict({"today", "longterm"}, TRUE, today, longterm)

EmptyData == Data(<<>>, <<>>)

\* the stores save_tasks is called with
DataPool == {EmptyData, Data(<<"a">>, <<>>), Data(<<"a">>, <<"b">>)}

\* the values a file of the model can parse to: the stores, a dict with a
\* 'today' list only, a dict whose 'today' is null, and a list
JsonPool ==
  DataPool \cup
    {Dict({"today"}, TRUE, <<"a">>, <<>>),
     Dict({"today"}, FALSE, <<>>, <<>>),
     [kind |-> "list", keys |-> {}, todayIsList |-> FALSE,
      today |-> <<>>, longterm |-> <<>>]}

\* json.dumps(data, indent=2): the text as a sequence of tokens
Dump(v) ==
  IF v.kind = "list" THEN <<"[", "]">>
  ELSE <<"{">>
       \o (IF "today" \in v.keys
           THEN <<"today">> \o (IF v.todayIsList THEN <<"[">> \o v.today \o <<"]">>
                                ELSE <<"null">>)
           ELSE <<>>)
       \o (IF "longterm" \in v.keys
           THEN <<"longterm", "[">> \o v.longterm \o <<"]">> ELSE <<>>)
       \o <<"}">>

ParsesNothing(text) == FALSE

\* json.loads(text) succeeds
Parses(text) == \E v \in JsonPool : Dump(v) = text

\* json.loads(text), where it succeeds
Loads(text) == CHOOSE v \in JsonPool : Dump(v) = text

\* texts a file can hold when the process starts: nothing, a truncated
\* dump, and every complete dump
TextPool0 ==
  {<<>>, <<" ">>, <<"{", "today", "[">>} \cup {Dump(v) : v \in JsonPool}

FilePool0 == {Absent} \cup {File(text) : text \in TextPool0}

NoFio == [op |-> "idle", data |-> EmptyData, n |-> 0, crashes |-> 0,
          main |-> Absent, backup |-> Absent, ret |-> EmptyData, logs |-> 0]

\* the task files before the first request: main and backup as given
InitFileVars(main, backup) ==
  /\ files = [p \in Paths |-> IF p = DataFile THEN main
                               ELSE IF p = BackupFile THEN backup ELSE Absent]
  /\ fio = NoFio

serverVars == <<mergeVars, scanVars, orchVars>>

\* ------------------------------------------------------------------------
\* The ingest queue directory and scan-companion.py
\* ------------------------------------------------------------------------
\* item names in sorted order; an item is a file <name>.json or <name>.err
ItemNames == 1..MaxItems

\* no file of that name was ever created
NoItem == [suffix |-> "new", text |-> "unwritten"]

\* what a *.json file put into the directory can hold: notes (a JSON object
\* with non-blank 'text'), blank (a JSON object whose 'text' is blank), and
\* garbage (not JSON)
ItemTexts == {"notes", "blank", "garbage"}

NoComp == [pc |-> "sleep", items |-> <<>>, i |-> 0, polls |-> 0,
           handed |-> [n \in ItemNames |-> 0], reads |-> [n \in ItemNames |-> 0]]

\* no mark_processed call under way
InitLedQuiet ==
  /\ mk = [t \in Threads |-> [pc |-> "idle", pid |-> <<"", "">>, items |-> {}]]
  /\ led = [held |-> FALSE, calls |-> 0]

\* nothing queued and the companion asleep
InitCompQuiet ==
  /\ inq = [n \in ItemNames |-> NoItem]
  /\ comp = NoComp

notCompVars == <<serverVars, fileVars, ledVars, ex>>

notFileVars == <<serverVars, compVars, ledVars, ex>>

\* behaviours that look neither at the task files as text nor at the queue
\* no text to extract from and no call made
NoEx == [inbox |-> <<>>, calls |-> 0, src |-> "", body |-> <<>>, content |-> <<>>,
         today |-> <<>>, lines |-> <<>>, kept |-> <<>>, reached |-> <<>>, found |-> <<>>, seen |-> {},
         prev |-> [content |-> <<>>, today |-> <<>>, kept |-> <<>>, found |-> <<>>]]

InitAux == InitFileVars(Absent, Absent) /\ InitCompQuiet /\ InitLedQuiet /\ ex = NoEx

\* queue_for_ingestion: path.write_text creates the file <ts>_<uid>.json
QueueCreate(n) ==
  /\ inq[n].suffix = "new"
  /\ \A k \in ItemNames : k < n => inq[k].suffix # "new"
  /\ inq' = [inq EXCEPT ![n] = [suffix |-> "json", text |-> "unwritten"]]
  /\ UNCHANGED <<comp, notCompVars>>

\* queue_for_ingestion: path.write_text writes the JSON text into the file
\* it opened, whatever the file's name is by now
QueueWrite(n) ==
  /\ inq[n].text = "unwritten"
  /\ inq[n].suffix \in {"json", "err"}
  /\ inq' = [inq EXCEPT ![n].text = "notes"]
  /\ UNCHANGED <<comp, notCompVars>>

\* INGEST_QUEUE_DIR.glob('*.json')
Pending == {n \in ItemNames : inq[n].suffix = "json"}

\* sorted(...)
RECURSIVE Sorted(_)
Sorted(S) ==
  IF S = {} THEN <<>>
  ELSE LET least == CHOOSE x \in S : \A y \in S : x <= y
       IN  <<least>> \o Sorted(S \ {least})

KeepSuffix == "json"

\* item_path.with_suffix('.err')
ErrSuffix == "err"

\* the main loop calls process_ingest_queue: the glob, and the return at
\* once when it is empty
Poll ==
  /\ comp.pc = "sleep"
  /\ comp.polls < MaxPolls
  /\ comp' = [comp EXCEPT !.polls = @ + 1, !.items = Sorted(Pending), !.i = 1,
                          !.pc = IF Pending = {} THEN "sleep" ELSE "item"]
  /\ UNCHANGED <<inq, notCompVars>>

\* process_ingest_queue: read and parse the next item; unreadable: rename to
\* .err; blank text: unlink; else hand the text to the agent
ItemRead ==
  /\ comp.pc = "item"
  /\ comp.i <= Len(comp.items)
  /\ LET n == comp.items[comp.i]
     IN  CASE inq[n].text \in {"unwritten", "garbage"} ->
                /\ inq' = [inq EXCEPT ![n].suffix = ErrSuffix]
                /\ comp' = [comp EXCEPT !.i = @ + 1, !.reads[n] = @ + 1]
           [] inq[n].text = "blank" ->
                /\ inq' = [inq EXCEPT ![n].suffix = "gone"]
                /\ comp' = [comp EXCEPT !.i = @ + 1, !.reads[n] = @ + 1]
           [] inq[n].text = "notes" ->
                /\ comp' = [comp EXCEPT !.pc = "agent", !.reads[n] = @ + 1,
                                        !.handed[n] = @ + 1]
                /\ UNCHANGED inq
  /\ UNCHANGED notCompVars

\* _run_claude returns: unlink on success, rename to .err on failure
AgentDone ==
  /\ comp.pc = "agent"
  /\ \E ok \in BOOLEAN :
       inq' = [inq EXCEPT ![comp.items[comp.i]].suffix =
                 IF ok THEN "gone" ELSE ErrSuffix]
  /\ comp' = [comp EXCEPT !.pc = "item", !.i = @ + 1]
  /\ UNCHANGED notCompVars

\* process_ingest_queue returns; time.sleep(3)
PollReturn ==
  /\ comp.pc = "item"
  /\ comp.i > Len(comp.items)
  /\ comp' = [comp EXCEPT !.pc = "sleep"]
  /\ UNCHANGED <<inq, notCompVars>>

\* save_tasks(data): take _task_lock, open the temporary file for writing
SaveOpen(data) ==
  /\ fio.op = "idle"
  /\ fio.n < MaxFileOps
  /\ files' = [files EXCEPT ![TmpFile] = File(<<>>)]
  /\ fio' = [fio EXCEPT !.op = "save", !.data = data, !.n = @ + 1,
                        !.main = files[DataFile]]
  /\ UNCHANGED notFileVars

\* save_tasks: tmp.write_text writes on
SaveWrite ==
  /\ fio.op = "save"
  /\ Len(files[TmpFile].content) < Len(Dump(fio.data))
  /\ files' = [files EXCEPT ![TmpFile].content =
                 Append(@, Dump(fio.data)[Len(@) + 1])]
  /\ UNCHANGED <<fio, notFileVars>>

\* save_tasks: tmp.replace(DATA_FILE), release _task_lock
SaveReplace ==
  /\ fio.op = "save"
  /\ files[TmpFile].content = Dump(fio.data)
  /\ files' = [p \in Paths |-> IF p = DataFile THEN files[TmpFile]
                                ELSE IF p = TmpFile THEN Absent ELSE files[p]]
  /\ fio' = [fio EXCEPT !.op = "idle"]
  /\ UNCHANGED notFileVars

\* the process is killed inside save_tasks and started again
Crash ==
  /\ fio.op = "save"
  /\ fio.crashes < MaxCrashes
  /\ fio' = [fio EXCEPT !.op = "idle", !.crashes = @ + 1]
  /\ UNCHANGED <<files, notFileVars>>

BackupValidAny(text) == Parses(text)

\* load_tasks: json.loads(backup.read_text()) succeeds and
\* isinstance(data.get('today'), list); data.get raises on a list
BackupValid(text) ==
  /\ Parses(text)
  /\ Loads(text).kind = "dict"
  /\ "today" \in Loads(text).keys
  /\ Loads(text).todayIsList

\* load_tasks()
LoadTasks ==
  /\ fio.op = "idle"
  /\ fio.n < MaxFileOps
  /\ LET main == files[DataFile]
         backup == files[BackupFile]
         Return(ret, fs, logs) ==
           /\ files' = fs
           /\ fio' = [fio EXCEPT !.n = @ + 1, !.main = main, !.backup = backup,
                                 !.ret = ret, !.logs = @ + logs]
     IN  IF ~main.exists THEN Return(EmptyData, files, 0)
         ELSE IF Strip(main.content) # <<>> /\ Parses(main.content)
         THEN Return(Loads(main.content), files, 0)
         ELSE IF backup.exists /\ BackupValid(backup.content)
         THEN Return(Loads(backup.content),
                     [p \in Paths |->
                        IF p = DataFile THEN File(Dump(Loads(backup.content)))
                        ELSE IF p = TmpFile THEN Absent ELSE files[p]], 2)
         ELSE Return(EmptyData,
                     [p \in Paths |->
                        IF p = BackupFile THEN main
                        ELSE IF p = DataFile THEN Absent ELSE files[p]], 2)
  /\ UNCHANGED notFileVars

\* ------------------------------------------------------------------------
\* The processed-message ledger
\* ------------------------------------------------------------------------
LedgerCap == 10000

\* f'{channel}_{nativeId}'
Pid(channel, id) == <<channel, id>>

NoPid == <<"", "">>

IsProcessedNever(pid) == FALSE

\* is_processed(pid): read without the lock
IsProcessed(pid) == pid \in processed

PersistedUncapped(ids, cap) == {ids}

\* list(_processed)[-cap:]: the last cap elements of the set in its
\* iteration order, which is the order of the hash table, not of insertion
Persisted(ids, cap) ==
  IF Cardinality(ids) <= cap THEN {ids}
  ELSE {S \in SUBSET ids : Cardinality(S) = cap}

MarkProcessedForgets(t, pid) ==
  /\ processed' = processed
  /\ processedFile' = processedFile
  /\ marks' = marks

\* mark_processed(pid) by scanner thread t
MarkProcessed(t, pid) ==
  /\ processed' = processed \cup {pid}
  /\ processedFile' \in Persisted(processed \cup {pid}, LedgerCap)
  /\ marks' = [marks EXCEPT ![t][pid] = @ + 1]

\* what the steps of mark_processed leave alone besides the ledger
ledRest == <<mergeVars, orchVars, fileVars, compVars, ex, env, queue, scn, fresh, failed>>

ProcLockAlwaysFree == TRUE

\* `with _proc_lock:` can be entered
ProcLockFree == ~led.held

\* mark_processed(pid), thread t: enter `with _proc_lock`
MarkEnter(t, pid) ==
  /\ mk[t].pc = "idle"
  /\ led.calls < MaxMarked
  /\ pid[1] = t[2]
  /\ marks[t][pid] = 0
  /\ ProcLockFree
  /\ mk' = [mk EXCEPT ![t] = [pc |-> "add", pid |-> pid, items |-> {}]]
  /\ led' = [held |-> TRUE, calls |-> led.calls + 1]
  /\ UNCHANGED <<processed, processedFile, marks, ledRest>>

\* mark_processed: _processed.add(pid)
MarkAdd(t) ==
  /\ mk[t].pc = "add"
  /\ processed' = processed \cup {mk[t].pid}
  /\ mk' = [mk EXCEPT ![t].pc = "list"]
  /\ UNCHANGED <<led, processedFile, marks, ledRest>>

MarkListTruncates(t) ==
  /\ mk[t].pc = "list"
  /\ \E items \in Persisted(processed, ScaledCap) :
       /\ mk' = [mk EXCEPT ![t].pc = "write", ![t].items = items]
       /\ processed' = items
  /\ UNCHANGED <<led, processedFile, marks, ledRest>>

\* mark_processed: items = list(_processed)[-10000:], with the scaled cap
MarkList(t) ==
  /\ mk[t].pc = "list"
  /\ \E items \in Persisted(processed, ScaledCap) :
       mk' = [mk EXCEPT ![t].pc = "write", ![t].items = items]
  /\ UNCHANGED <<led, processed, processedFile, marks, ledRest>>

\* mark_processed: PROCESSED_FILE.write_text(json.dumps(items)), leave the
\* `with` block and return
MarkWrite(t) ==
  /\ mk[t].pc = "write"
  /\ processedFile' = mk[t].items
  /\ marks' = [marks EXCEPT ![t][mk[t].pid] = @ + 1]
  /\ mk' = [mk EXCEPT ![t].pc = "idle"]
  /\ led' = [led EXCEPT !.held = FALSE]
  /\ UNCHANGED <<processed, ledRest>>

\* ------------------------------------------------------------------------
\* extract_action_items
\* ------------------------------------------------------------------------
UserName == "Justin Miller"

UserFirst == "Justin"

\* _name_re
NameRe ==
  Cat(<<Alt(<<Bol, Cls(SpaceChars \cup Range(Chars(",;:([@")))>>),
        Words(<<UserName, UserFirst>>), Alt(<<WordB, Eol>>)>>)

\* _trigger_re
TriggerRe ==
  Cat(<<WordB,
        Alt(<<Lit("can you"), Lit("could you"), Lit("please"), Lit("would you mind"),
              Lit("i need you to"),
              Cat(<<Lit("you"), Opt(Cat(<<Plus(Sp), Lit("will")>>)), Plus(Sp), Lit("need to")>>),
              Spaced(<<"you", "should">>), Spaced(<<"you", "must">>),
              Spaced(<<"action", "item">>), Lit("action:"), Lit("todo:"),
              Cat(<<Lit("to"), Opt(Lit("-")), Lit("do:")>>),
              Cat(<<Lit("follow"), Opt(Of("- ")), Lit("up")>>),
              Spaced(<<"next", "step">>), Spaced(<<"assigned", "to">>),
              Spaced(<<"your", "task">>), Spaced(<<"your", "action">>),
              Spaced(<<"remind", "you">>),
              Cat(<<Lit("don"), Opt(Lit("'")), Lit("t"), Plus(Sp), Lit("forget")>>),
              Spaced(<<"make", "sure", "you">>), Spaced(<<"ensure", "you">>),
              Cat(<<Lit("you"), Plus(Sp), Words(<<"are", "were">>), Plus(Sp), Lit("asked")>>)>>),
        WordB>>)

\* _WEEKDAYS, in the order of the dict
WeekdayNames ==
  <<"monday", "tuesday", "wednesday", "thursday", "friday", "saturday", "sunday">>

\* _MONTHS, in the order of the dict: [name, number]
MonthNames ==
  <<<<"january", 1>>, <<"february", 2>>, <<"march", 3>>, <<"april", 4>>,
    <<"may", 5>>, <<"june", 6>>, <<"july", 7>>, <<"august", 8>>,
    <<"september", 9>>, <<"october", 10>>, <<"november", 11>>, <<"december", 12>>,
    <<"jan", 1>>, <<"feb", 2>>, <<"mar", 3>>, <<"apr", 4>>,
    <<"jun", 6>>, <<"jul", 7>>, <<"aug", 8>>, <<"sep", 9>>, <<"oct", 10>>,
    <<"nov", 11>>, <<"dec", 12>>>>

NextWeekdayAtOrAfter(name, today) ==
  LET target == CHOOSE n \in 0..6 : Chars(WeekdayNames[n + 1]) = name
  IN  PlusDays(today, (target - Weekday(today) + 7) % 7)

\* _next_weekday(name): diff = (target - today.weekday() + 7) % 7 or 7
NextWeekday(name, today) ==
  LET target == CHOOSE n \in 0..6 : Chars(WeekdayNames[n + 1]) = name
      diff   == (target - Weekday(today) + 7) % 7
  IN  PlusDays(today, IF diff = 0 THEN 7 ELSE diff)

\* the patterns of _parse_date, in the order it tries them
The == Opt(Cat(<<Lit("the"), Plus(Sp)>>))

EodReDayOnly ==
  Cat(<<WordB, Cat(<<Lit("end"), Plus(Sp), Lit("of"), Plus(Sp), The, Lit("day")>>), WordB>>)

\* r'\b(eod|cob|end\s+of\s+(the\s+)?day)\b'
EodRe ==
  Cat(<<WordB, Alt(<<Lit("eod"), Lit("cob"),
                     Cat(<<Lit("end"), Plus(Sp), Lit("of"), Plus(Sp), The, Lit("day")>>)>>),
        WordB>>)

\* r'\bend\s+of\s+(the\s+)?week\b' and the same for month
EndOfRe(w) == Cat(<<WordB, Lit("end"), Plus(Sp), Lit("of"), Plus(Sp), The, Lit(w), WordB>>)

\* "by/on/due [next] weekday"
WeekdayRe ==
  Cat(<<WordB, Words(<<"by", "on", "due">>), Plus(Sp), Opt(Cat(<<Lit("next"), Plus(Sp)>>)),
        Grp(1, Words(WeekdayNames)), WordB>>)

\* "March 5th 2025"
MonthRe ==
  Cat(<<WordB, Grp(1, Alt([n \in DOMAIN MonthNames |-> Lit(MonthNames[n][1])])),
        Plus(Sp), Grp(2, Rep(Dg, 1, 2)), Opt(Words(<<"st", "nd", "rd", "th">>)),
        Star(Sp), Opt(Cat(<<Opt(Lit(",")), Star(Sp), Grp(3, Rep(Dg, 4, 4))>>)), WordB>>)

\* YYYY-MM-DD
IsoRe ==
  Cat(<<WordB, Grp(1, Rep(Dg, 4, 4)), Lit("-"), Grp(2, Rep(Dg, 2, 2)), Lit("-"),
        Grp(3, Rep(Dg, 2, 2)), WordB>>)

\* MM/DD or MM/DD/YYYY
SlashRe ==
  Cat(<<WordB, Grp(1, Rep(Dg, 1, 2)), Lit("/"), Grp(2, Rep(Dg, 1, 2)),
        Opt(Cat(<<Lit("/"), Grp(3, Rep(Dg, 2, 4))>>)), WordB>>)

\* what _parse_date returns: [via, date], the branch that returned and the
\* ISO date, the empty sequence for None
Resolved(via, d) == [via |-> via, date |-> IsoFormat(d)]

Unresolved == [via |-> "none", date |-> <<>>]

\* a branch inside try/except ValueError: d is the date it built, <<>> when
\* the constructor raised and the function goes on with the next pattern
TryDate(via, d, otherwise) == IF d # <<>> THEN Resolved(via, d) ELSE otherwise

\* datetime.date(y, m, d), <<>> when it raises
DateOrNone(y, m, d) == IF ValidDate(y, m, d) THEN <<y, m, d>> ELSE <<>>

\* diff = (4 - today.weekday()) % 7 or 7
EndOfWeek(today) ==
  PlusDays(today, IF (4 - Weekday(today)) % 7 = 0 THEN 7 ELSE (4 - Weekday(today)) % 7)

\* nm = today.replace(day=28) + timedelta(days=4); nm - timedelta(days=nm.day)
LastOfMonth(nm) == PlusDays(nm, 0 - nm[3])

EndOfMonthPlus3(today) == LastOfMonth(PlusDays(<<today[1], today[2], 28>>, 3))

\* nm = today.replace(day=28) + timedelta(days=4)
EndOfMonth(today) == LastOfMonth(PlusDays(<<today[1], today[2], 28>>, 4))

\* _MONTHS[name]
MonthNumber(name) ==
  MonthNames[CHOOSE n \in DOMAIN MonthNames : Chars(MonthNames[n][1]) = name][2]

\* the month-name branch: d < today rolls over to the next year
MonthDate(year, month, day, today) ==
  IF ~ValidDate(year, month, day) THEN <<>>
  ELSE IF ~DateAfter(today, <<year, month, day>>) THEN <<year, month, day>>
  ELSE DateOrNone(today[1] + 1, month, day)

MonthDateOf(mt, t, today) ==
  IF ~mt.ok THEN <<>>
  ELSE MonthDate(IF Group(mt, t, 3) # <<>> THEN ToInt(Group(mt, t, 3)) ELSE today[1],
                 MonthNumber(Group(mt, t, 1)), ToInt(Group(mt, t, 2)), today)

IsoDateOf(mt, t) ==
  IF ~mt.ok THEN <<>>
  ELSE DateOrNone(ToInt(Group(mt, t, 1)), ToInt(Group(mt, t, 2)), ToInt(Group(mt, t, 3)))

\* yr = int(m.group(3)) if m.group(3) else today.year; if yr < 100: yr += 2000
SlashYear(yr) == IF yr < 100 THEN yr + 2000 ELSE yr

\* the slash branch: the year given or the current one, no roll-over
SlashDateOf(mt, t, today) ==
  IF ~mt.ok THEN <<>>
  ELSE DateOrNone(SlashYear(IF Group(mt, t, 3) # <<>> THEN ToInt(Group(mt, t, 3))
                            ELSE today[1]),
                  ToInt(Group(mt, t, 1)), ToInt(Group(mt, t, 2)))

ParseSlash(t, today) ==
  TryDate("slash", SlashDateOf(Search(SlashRe, t, {}, 1), t, today), Unresolved)

ParseIso(t, today) ==
  TryDate("iso", IsoDateOf(Search(IsoRe, t, {}, 1), t), ParseSlash(t, today))

ParseMonthName(t, today) ==
  TryDate("monthname", MonthDateOf(Search(MonthRe, t, {}, 1), t, today), ParseIso(t, today))

ParseWeekday(t, today, mt) ==
  IF mt.ok THEN Resolved("weekday", NextWeekday(Group(mt, t, 1), today))
  ELSE ParseMonthName(t, today)

\* _parse_date on the lowered text t
ParseLowered(t, today) ==
  IF Found(EodRe, t, {}) THEN Resolved("eod", today)
  ELSE IF Found(EndOfRe("week"), t, {}) THEN Resolved("week", EndOfWeek(today))
  ELSE IF Found(EndOfRe("month"), t, {}) THEN Resolved("month", EndOfMonth(today))
  ELSE ParseWeekday(t, today, Search(WeekdayRe, t, {}, 1))

\* _parse_date(text)
ParseDate(text, today) == ParseLowered(Lower(text), today)

\* _due_phrase_re
DuePhraseRe ==
  Cat(<<WordB, Alt(<<Lit("by"), Lit("due"), Lit("before"), Spaced(<<"no", "later", "than">>)>>),
        Plus(Sp), Grp(1, Rep(Cls(WordChars \cup SpaceChars \cup Range(Chars("/-,"))), 2, 35))>>)

\* the date of a due phrase: _parse_date(m.group(0)), None without a match
DueOf(mt, sentence, today) ==
  IF mt.ok THEN ParseDate(SubSeq(sentence, mt.a, mt.e - 1), today) ELSE Unresolved

\* _extract_due(sentence)
ExtractDue(sentence, today) ==
  DueOf(Search(DuePhraseRe, sentence, {"I"}, 1), sentence, today)

UrgentRe ==
  Cat(<<WordB, Alt(<<Lit("urgent"), Lit("asap"), Lit("immediately"), Lit("critical"),
                     Lit("blocker"), Lit("p0"), Lit("p1"), Spaced(<<"top", "priority">>)>>),
        WordB>>)

PressingRe ==
  Cat(<<WordB, Alt(<<Lit("important"), Spaced(<<"high", "priority">>), Lit("soon"),
                     Lit("today"), Lit("eod"), Lit("cob"), Spaced(<<"end", "of", "day">>)>>),
        WordB>>)

PriorityAlwaysHigh(sentence) == "high"

\* _priority(sentence)
Priority(sentence) ==
  IF Found(UrgentRe, Lower(sentence), {}) THEN "high"
  ELSE IF Found(PressingRe, Lower(sentence), {}) THEN "high"
  ELSE "medium"

BulletsRe == Cat(<<Bol, Plus(Of("-*>")), Star(Sp)>>)

\* s[:1].upper() + s[1:] if s else s
Capitalised(s) == IF s = <<>> THEN s ELSE <<UpperChar(Head(s))>> \o Tail(s)

\* _clean(s): strip, drop leading bullet characters (the ASCII ones: the
\* model's text is ASCII), collapse runs of whitespace, capitalise the first
\* character
Clean(s) ==
  Capitalised(SubFrom(Rep(Sp, 2, Inf), <<" ">>,
                      SubFrom(BulletsRe, <<>>, Strip(s), {}, 1), {}, 1))

\* len(line.split())
WordCount(line) ==
  Cardinality({p \in DOMAIN line : ~IsSpace(line[p]) /\ (p = 1 \/ IsSpace(line[p - 1]))})

\* lines = [l.strip() for l in re.split(r'[\n\r]+|(?<=[.!?])\s+', content)
\*          if l.strip()]
\* A separator is a newline character, or whitespace that follows a
\* sentence end with nothing but whitespace in between; what whitespace is
\* left at the ends of a piece is stripped.
SplitLines(content) ==
  LET n == Len(content)
      afterStop(p) ==
        \E q \in 1..(p - 1) :
          /\ content[q] \in {".", "!", "?"}
          /\ \A u \in (q + 1)..(p - 1) : IsSpace(content[u])
      sep(p) == \/ content[p] \in {"\n", "\r"}
                \/ IsSpace(content[p]) /\ afterStop(p)
      starts == Sorted({p \in 1..n : ~sep(p) /\ (p = 1 \/ sep(p - 1))})
      end(a) == IF \A p \in a..n : ~sep(p) THEN n
                ELSE (CHOOSE p \in a..n : sep(p) /\ \A u \in a..(p - 1) : ~sep(u)) - 1
      pieces == [k \in DOMAIN starts |-> Strip(SubSeq(content, starts[k], end(starts[k])))]
  IN  SelectSeq(pieces, LAMBDA l : l # <<>>)

\* the patterns of the hard-skip filters at the head of the loop.  The
\* model's text is ASCII, so the copyright sign of the footer pattern and
\* the en dash of the person-name pattern are left out.
\* flags=re.IGNORECASE
IgnoreCase == {"I"}

AtStart(r) == Cat(<<Bol, r>>)

SkipCapitalised == Cat(<<Cls(Range(UpperAlpha)), Plus(Cls(Range(LowerAlpha)))>>)

SkipWsd == Cls(WordChars \cup SpaceChars \cup {".", "-"})

SkipWd == Cls(WordChars \cup {".", "-"})

SkipWdp == Cls(WordChars \cup {".", "-", "+"})

SkipEmail == Cat(<<Plus(SkipWdp), Lit("@"), Plus(SkipWd)>>)

SkipTld == Words(<<"com", "net", "org", "io">>)

SkipQuoted == Star(Cls(SpaceChars \cup {">"}))

SkipImage == AtStart(Lit("[image:"))

SkipSalutation ==
  AtStart(Cat(<<Alt(<<Lit("hi"), Lit("hello"), Lit("hey"), Lit("dear"),
                 Cat(<<Lit("g"), Opt(Lit("'")), Lit("day")>>),
                 Cat(<<Lit("good"), Plus(Sp),
                       Words(<<"morning", "afternoon", "evening", "day">>)>>)>>),
           WordB>>))

SkipByline == AtStart(Cat(<<Lit("by"), Plus(Sp), SkipCapitalised, Star(Cat(<<Plus(Sp), SkipCapitalised>>)), Star(Sp), Eol>>))

SkipRole == AtStart(Cat(<<Alt(<<Lit("owner"), Lit("lead"), Lit("responsible"), Lit("assignee"),
                       Lit("poc"), Lit("dri"), Spaced(<<"point", "of", "contact">>)>>),
                 Star(Sp), Lit(":")>>))

SkipOnStart == AtStart(Cat(<<Lit("on"), Plus(Sp), Wd>>))

SkipWroteEnd == Alt(<<Cat(<<Lit("wrote:"), Star(Sp), Eol>>),
                  Cat(<<Lit("<"), Star(Sp), Eol>>),
                  Cat(<<Lit("@"), Plus(SkipWd), Lit(">"), Star(Sp), Eol>>)>>)

SkipAttribution == Cat(<<Lit("@"), Plus(SkipWd), Lit(">"), Star(Sp), Lit("wrote:"), Star(Sp), Eol>>)

SkipAny == Star(NotCls({"\n"}))

SkipFooter ==
  AtStart(Alt(<<Spaced(<<"google", "llc">>),
           Spaced(<<"you", "have", "received", "this", "email", "because">>),
           Spaced(<<"this", "email", "was", "sent", "to">>),
           Lit("unsubscribe"), Spaced(<<"privacy", "policy">>),
           Spaced(<<"all", "rights", "reserved">>),
           Cat(<<Plus(Dg), Plus(Sp), Plus(Wd), SkipAny,
                 Words(<<"ave", "blvd", "pkwy", "way", "street", "road", "drive">>),
                 SkipAny, WordB, Lit("usa"), WordB>>),
           Spaced(<<"mountain", "view">>), Spaced(<<"1600", "amphitheatre">>)>>))

SkipShared == AtStart(Cat(<<Plus(SkipWsd), Lit(" shared "), Opt(Words(<<"a ", "an ">>)),
                   Words(<<"document", "file", "folder", "spreadsheet", "slide">>)>>))

SkipInvited == AtStart(Cat(<<Plus(SkipWsd), Lit("("), Plus(SkipWdp), Lit("@"), Plus(SkipWd), Lit(")"),
                    Plus(Sp), Lit("has"), Plus(Sp), Words(<<"invited", "shared">>)>>))

SkipContact == AtStart(Cat(<<Plus(SkipWsd), Of("(<"), Plus(SkipWdp), Lit("@"), Plus(SkipWd), Lit("."), SkipTld,
                    Of(">)"), Star(Sp),
                    Opt(Alt(<<Spaced(<<"has", "invited">>), Lit("shared"),
                              Lit("wrote"), Lit("said")>>))>>))

SkipAddress == AtStart(Cat(<<Plus(SkipWdp), Lit("@"), Plus(SkipWd), Star(Sp)>>))

SkipHeader == AtStart(Cat(<<SkipQuoted,
                   Alt(<<Lit("from"), Lit("to"), Lit("cc"), Lit("bcc"), Lit("subject"),
                         Lit("date"), Lit("reply-to"), Lit("message-id"),
                         Lit("delivered-to"), Lit("received"),
                         Cat(<<Lit("x-"), Plus(Cls(WordChars \cup {"-"}))>>)>>),
                   Star(Sp), Lit(":")>>))

SkipCalendar ==
  AtStart(Cat(<<SkipQuoted,
           Alt(<<Lit("organizer"), Lit("when"), Lit("where"),
                 Cat(<<Lit("attendee"), Opt(Lit("s"))>>), Lit("time"), Lit("location"),
                 Cat(<<Lit("event"), Opt(Cat(<<Plus(Sp), Lit("title")>>))>>),
                 Cat(<<Lit("join"), Plus(Sp),
                       Alt(<<Lit("zoom"), Spaced(<<"the", "meeting">>)>>)>>),
                 Cat(<<Lit("dial"), Opt(Cls(SpaceChars \cup {"-"})), Lit("in")>>),
                 Cat(<<Lit("conference"), Plus(Sp), Words(<<"id", "room">>)>>),
                 Cat(<<Lit("proposed"), Plus(Sp), Opt(Cat(<<Lit("new"), Plus(Sp)>>)),
                       Lit("time")>>),
                 Spaced(<<"video", "call">>), Spaced(<<"meeting", "link">>)>>),
           Star(Sp), Of(":-")>>))

SkipDomain == AtStart(Cat(<<Opt(Lit("www.")), Plus(Cls(WordChars \cup {"-"})), Lit("."),
                   Words(<<"com", "net", "org", "io", "ai", "co", "us">>), Star(Sp), Eol>>))

SkipPhone == Cat(<<Opt(Lit("+")), Dg, Rep(Cls(Digits \cup SpaceChars \cup Range(Chars(".-()"))), 6, Inf), Dg>>)

SkipAtSign == Cat(<<Lit("@"), Plus(SkipWd)>>)

SkipAmpm == Words(<<"am", "pm">>)

SkipSlot == AtStart(Cat(<<Rep(Dg, 1, 2), Lit(":"), Rep(Dg, 2, 2), Star(Sp), SkipAmpm, WordB>>))

SkipDayName == AtStart(Cat(<<Words(<<"mon", "tue", "wed", "thu", "fri", "sat", "sun">>),
                    Star(Wd), WordB>>))

SkipClockTime == Cat(<<WordB, Rep(Dg, 1, 2), Opt(Cat(<<Lit(":"), Rep(Dg, 2, 2)>>)),
                   Star(Sp), SkipAmpm, WordB>>)

SkipPerson == AtStart(Cat(<<SkipCapitalised, Plus(Cat(<<Plus(Sp), SkipCapitalised>>)), Star(Sp),
                   Opt(Cat(<<Of("-"), Star(Sp), Plus(Cls(WordChars \cup SpaceChars))>>)),
                   Eol>>))

SkipActionWord == Cat(<<WordB, Alt(<<Lit("please"), Lit("must"), Lit("should"), Lit("need"),
                      Lit("action"), Lit("follow"), Spaced(<<"next", "step">>)>>), WordB>>)

SkipDangling ==
  Cat(<<WordB,
        Words(<<"to", "and", "or", "but", "for", "in", "of", "at", "by", "from", "with",
                "into", "onto", "over", "through", "about", "the", "a", "an", "this",
                "that", "these", "those", "your", "our", "their", "its", "my", "his",
                "her", "me", "us", "them", "him", "her">>),
        Star(Sp), Eol>>)

\* a hard-skip filter: the patterns that all have to be found in the line,
\* the patterns that must not be found, and the limits on len(line.split())
Filter(all, none, lo, hi) == [all |-> all, none |-> none, lo |-> lo, hi |-> hi]

Pat(re, flags) == [re |-> re, flags |-> flags]

\* the filters that are pattern searches, in the order of the loop
SkipFilters ==
  <<Filter(<<Pat(SkipImage, IgnoreCase)>>, <<>>, 0, Inf),
    Filter(<<Pat(SkipSalutation, IgnoreCase)>>, <<>>, 0, 20),
    Filter(<<Pat(SkipByline, {})>>, <<>>, 0, Inf),
    Filter(<<Pat(SkipRole, IgnoreCase)>>, <<>>, 0, Inf),
    Filter(<<Pat(SkipOnStart, IgnoreCase), Pat(SkipWroteEnd, IgnoreCase)>>, <<>>, 0, Inf),
    Filter(<<Pat(SkipAttribution, IgnoreCase)>>, <<>>, 0, Inf),
    Filter(<<Pat(SkipFooter, IgnoreCase)>>, <<>>, 0, Inf),
    Filter(<<Pat(SkipShared, IgnoreCase)>>, <<>>, 0, Inf),
    Filter(<<Pat(SkipInvited, IgnoreCase)>>, <<>>, 0, Inf),
    Filter(<<Pat(SkipContact, IgnoreCase)>>, <<>>, 0, 15),
    Filter(<<Pat(SkipAddress, {})>>, <<>>, 0, 4),
    Filter(<<Pat(SkipHeader, IgnoreCase)>>, <<>>, 0, Inf),
    Filter(<<Pat(SkipCalendar, IgnoreCase)>>, <<>>, 0, Inf),
    Filter(<<Pat(SkipDomain, IgnoreCase)>>, <<>>, 0, Inf),
    Filter(<<Pat(SkipPhone, {}), Pat(SkipAtSign, {})>>, <<>>, 0, Inf),
    Filter(<<Pat(SkipSlot, IgnoreCase)>>, <<>>, 0, Inf),
    Filter(<<Pat(SkipDayName, IgnoreCase), Pat(SkipClockTime, IgnoreCase)>>, <<>>, 0, 12),
    Filter(<<Pat(SkipPerson, {})>>, <<Pat(SkipActionWord, IgnoreCase)>>, 0, 6),
    Filter(<<Pat(SkipDangling, IgnoreCase)>>, <<>>, 5, Inf)>>

\* whether filter f makes the loop `continue` on this line
Applies(f, line) ==
  /\ \A k \in DOMAIN f.all : Found(f.all[k].re, line, f.all[k].flags)
  /\ \A k \in DOMAIN f.none : ~Found(f.none[k].re, line, f.none[k].flags)
  /\ WordCount(line) >= f.lo
  /\ f.hi = Inf \/ WordCount(line) <= f.hi

\* line.rstrip().endswith(':')
EndsWithColon(line) == line # <<>> /\ line[Len(line)] = ":"

\* whether a second address follows the first: len(re.findall(...)) >= 2
SecondFound(first, line) == first.ok /\ Search(SkipEmail, line, {}, first.e).ok

\* whether one of the hard-skip filters makes the loop `continue`
HardSkip(line) ==
  \/ \E n \in DOMAIN SkipFilters : Applies(SkipFilters[n], line)
  \/ EndsWithColon(RStrip(line))
  \/ SecondFound(Search(SkipEmail, line, {}, 1), line)

SignalIgnored(has_name, has_trigger) == TRUE

\* `if not (has_name or has_trigger): continue`
SignalPresent(has_name, has_trigger) == has_name \/ has_trigger

LengthAny(n) == TRUE

\* `if len(text) < 8 or len(text) > 300: continue`
LengthAllowed(n) == n >= 8 /\ n <= 300

\* r'\([^)]*\)'
ParensRe == Cat(<<Lit("("), Star(NotCls({")"})), Lit(")")>>)

\* r'^(?:USER_NAME|USER_FIRST)\s+(?:will|is|was|...|might)\b'
ThirdPersonRe ==
  Cat(<<Bol, Words(<<UserName, UserFirst>>), Plus(Sp),
        Words(<<"will", "is", "was", "has", "had", "can", "could", "would",
                "should", "may", "might">>), WordB>>)

\* the pattern a trigger-only line has to contain
DirectiveRe ==
  Cat(<<WordB,
        Alt(<<Lit("can you"), Lit("could you"),
              Cat(<<Lit("please"), Plus(Sp), Opt(Cat(<<Plus(Wd), Plus(Sp)>>)),
                    Alt(<<Lit("do"), Lit("send"), Lit("review"), Lit("confirm"),
                          Lit("check"), Spaced(<<"let", "me">>), Lit("update"),
                          Lit("share"), Lit("schedule"), Lit("submit"),
                          Lit("complete"), Lit("sign"), Lit("approve"),
                          Lit("prepare"), Lit("create"), Lit("follow"), Lit("reply"),
                          Lit("respond"), Lit("help"), Lit("take"), Lit("get"),
                          Lit("add"), Lit("fix"), Lit("write"), Lit("provide"),
                          Spaced(<<"reach", "out">>), Spaced(<<"look", "into">>),
                          Spaced(<<"look", "at">>), Spaced(<<"make", "sure">>),
                          Spaced(<<"note", "that">>)>>)>>),
              Spaced(<<"action", "item">>),
              Cat(<<Lit("follow"), Opt(Of("- ")), Lit("up")>>),
              Spaced(<<"next", "step">>), Lit("assigned")>>),
        WordB>>)

\* ctx = line + (' ' + lines[i + 1] if i + 1 < len(lines) else '')
Context(lines, i) ==
  IF i + 1 <= Len(lines) THEN lines[i] \o <<" ">> \o lines[i + 1] ELSE lines[i]

\* the name-only refinements: whether one of them makes the loop `continue`
NameOnlySkip(line, ctx) ==
  \/ ~Found(NameRe, SubFrom(ParensRe, <<" ">>, ctx, {}, 1), IgnoreCase)
  \/ Found(ThirdPersonRe, line, IgnoreCase)

\* the trigger-only refinements: whether one of them makes the loop `continue`
TriggerOnlySkip(line) ==
  \/ ~Found(DirectiveRe, line, IgnoreCase)
  \/ WordCount(line) < 5

\* whether the line gets past the signal check and the two refinements
Signalled(line, ctx, has_name, has_trigger) ==
  /\ SignalPresent(has_name, has_trigger)
  /\ (has_name /\ ~has_trigger) => ~NameOnlySkip(line, ctx)
  /\ (has_trigger /\ ~has_name) => ~TriggerOnlySkip(line)

\* whether the loop body reaches `due = _extract_due(ctx)` for this line
Survives(line, ctx) ==
  /\ ~HardSkip(line)
  /\ Signalled(line, ctx, Found(NameRe, ctx, IgnoreCase), Found(TriggerRe, ctx, IgnoreCase))

KeyOfWhole(text) == Lower(text)

\* key = text.lower()[:80]
KeyOf(text) == SubSeq(Lower(text), 1, IF Len(text) < 80 THEN Len(text) ELSE 80)

\* the item the loop appends, with the line and the context it came from
\* and the branch of _parse_date that gave its date
Made(line, ctx, text, due) ==
  [item |-> Item(text, due.date, Priority(ctx)), key |-> KeyOf(text),
   line |-> line, ctx |-> ctx, via |-> due.via]

\* the length check on the cleaned text: the item made, or nothing
Measured(line, ctx, text, today) ==
  IF LengthAllowed(Len(text)) THEN <<Made(line, ctx, text, ExtractDue(ctx, today))>>
  ELSE <<>>

\* what the loop body makes of one line before it looks at seen_keys
Proposed(line, ctx, today) ==
  IF Survives(line, ctx) THEN Measured(line, ctx, Clean(line), today) ELSE <<>>

\* the body of `for i, line in enumerate(lines)` from line i on: the
\* candidates appended
RECURSIVE Candidates(_, _, _, _), Appended(_, _, _, _, _)
Candidates(lines, i, today, seen_keys) ==
  IF i > Len(lines) THEN <<>>
  ELSE Appended(lines, i, today, seen_keys, Proposed(lines[i], Context(lines, i), today))

\* `if key in seen_keys: continue`, else seen_keys.add(key) and items.append
Appended(lines, i, today, seen_keys, made) ==
  IF made = <<>> THEN Candidates(lines, i + 1, today, seen_keys)
  ELSE IF made[1].key \in seen_keys THEN Candidates(lines, i + 1, today, seen_keys)
  ELSE made \o Candidates(lines, i + 1, today, seen_keys \cup {made[1].key})

\* extract_action_items(source_type, content) on the date today, with
\* seen_keys as it is when the loop starts
ExtractActionItems(content, today, seen_keys) ==
  Candidates(SplitLines(content), 1, today, seen_keys)

\* r'^On\s+\w[^\n]{5,200}(?:\n[^\n]{0,100})?wrote:\s*$'
AttributionRe ==
  Cat(<<Bol, Lit("On"), Plus(Sp), Wd, Rep(NotCls({"\n"}), 5, 200),
        Opt(Cat(<<Lit("\n"), Rep(NotCls({"\n"}), 0, 100)>>)), Lit("wrote:"), Star(Sp), Eol>>)

\* r'\n[-_]{3,}\s*\n'
SeparatorRe == Cat(<<Lit("\n"), Rep(Of("-_"), 3, Inf), Star(Sp), Lit("\n")>>)

\* `if m: body = body[:m.start()]`
UpTo(mt, body) == IF mt.ok THEN SubSeq(body, 1, mt.a - 1) ELSE body

\* the pieces of body between the cuts, which are the places of the newlines
\* with 0 in front and Len(body) + 1 behind
Pieces(body, cut) ==
  [k \in 1..(Len(cut) - 1) |-> SubSeq(body, cut[k] + 1, cut[k + 1] - 1)]

\* body.split('\n')
SplitNewlines(body) ==
  Pieces(body, <<0>> \o Sorted({p \in DOMAIN body : body[p] = "\n"}) \o <<Len(body) + 1>>)

\* the loop over body.split('\n'): the lines kept
RECURSIVE Unquoted(_, _), UnquotedLine(_, _, _)
Unquoted(lines, prev_was_quote) ==
  IF lines = <<>> THEN <<>>
  ELSE UnquotedLine(lines, prev_was_quote, Strip(Head(lines)))

\* one turn of that loop, stripped being line.strip()
UnquotedLine(lines, prev_was_quote, stripped) ==
  IF stripped # <<>> /\ Head(stripped) = ">" THEN Unquoted(Tail(lines), TRUE)
  ELSE IF prev_was_quote /\ stripped = <<>> THEN Unquoted(Tail(lines), prev_was_quote)
  ELSE <<Head(lines)>> \o Unquoted(Tail(lines), FALSE)

\* '\n'.join(lines)
RECURSIVE JoinLines(_)
JoinLines(lines) ==
  IF lines = <<>> THEN <<>>
  ELSE IF Len(lines) = 1 THEN Head(lines)
  ELSE Head(lines) \o <<"\n">> \o JoinLines(Tail(lines))

\* step 2: the body without its quoted lines
WithoutQuoted(body) == JoinLines(Unquoted(SplitNewlines(body), FALSE))

\* step 3 and the return
BeforeSeparator(body) == Strip(UpTo(Search(SeparatorRe, body, {}, 1), body))

\* _strip_email_quotes(body)
StripEmailQuotes(body) ==
  BeforeSeparator(WithoutQuoted(UpTo(Search(AttributionRe, body, {"I", "M"}, 1), body)))

\* ------------------------------------------------------------------------
\* run_scan, _schedule_scan, start_scanners, POST /api/scan
\* ------------------------------------------------------------------------
Runs == 1..MaxRuns

\* the order in which run_scan starts and joins its threads
JoinOrder == <<"email", "slack", "gong">>

\* atIdle: the store, ledger and queue as they were when the run set the
\* state to idle
NoRun == [pc |-> "unborn", manual |-> FALSE, j |-> 0,
          atIdle |-> [store |-> EmptyStore, processed |-> {}, queue |-> <<>>]]

Unborn == {r \in Runs : run[r].pc = "unborn"}

\* the next thread to be created runs run_scan number NewRun
NewRun == CHOOSE r \in Unborn : \A q \in Unborn : r <= q

CanAcquireAlways == TRUE

\* _scan_lock.acquire(blocking=False) succeeds
CanAcquire == lock = 0

\* a threading.Timer set by start_scanners or _schedule_scan expires
TimerFire ==
  /\ timers > 0
  /\ Unborn # {}
  /\ timers' = timers - 1
  /\ run' = [run EXCEPT ![NewRun] = [NoRun EXCEPT !.pc = "acquire"]]
  /\ UNCHANGED <<lock, status, posts, trigger>>
  /\ UNCHANGED <<mergeVars, scanVars>>
  /\ UNCHANGED auxVars

\* Handler.do_POST /api/scan while the lock is held
ManualPostBusy ==
  /\ lock # 0
  /\ posts < MaxPosts
  /\ posts' = posts + 1
  /\ UNCHANGED <<lock, status, run, timers, trigger>>
  /\ UNCHANGED <<mergeVars, scanVars>>
  /\ UNCHANGED auxVars

\* Handler.do_POST /api/scan while the lock is free
ManualPost ==
  /\ lock = 0
  /\ Unborn # {}
  /\ trigger' = TRUE
  /\ run' = [run EXCEPT ![NewRun] = [NoRun EXCEPT !.pc = "acquire", !.manual = TRUE]]
  /\ UNCHANGED <<lock, status, timers, posts>>
  /\ UNCHANGED <<mergeVars, scanVars>>
  /\ UNCHANGED auxVars

\* run_scan: the non-blocking acquire, or 'Already running, skipping'
RunAcquire(r) ==
  /\ run[r].pc = "acquire"
  /\ IF CanAcquire
     THEN /\ lock' = r
          /\ run' = [run EXCEPT ![r].pc = "locked"]
     ELSE /\ run' = [run EXCEPT ![r].pc = "dropped"]
          /\ UNCHANGED lock
  /\ UNCHANGED <<status, timers, posts, trigger>>
  /\ UNCHANGED <<mergeVars, scanVars>>
  /\ UNCHANGED auxVars

\* run_scan: state = 'running', create and start the three scanner threads
RunStart(r) ==
  /\ run[r].pc = "locked"
  /\ status' = "running"
  /\ pc' = [t \in Threads |-> IF t[1] = r THEN "start" ELSE pc[t]]
  /\ run' = [run EXCEPT ![r].pc = "join", ![r].j = 1]
  /\ UNCHANGED <<lock, timers, posts, trigger>>
  /\ UNCHANGED <<clock, store, nextId, pending, loc, calls, dupSkips, last, saves>>
  /\ UNCHANGED scanVars
  /\ UNCHANGED auxVars

AfterJoinSkipsIdle(r) ==
  IF run[r].j = Len(JoinOrder)
  THEN [run EXCEPT ![r].pc = "release"]
  ELSE [run EXCEPT ![r].j = @ + 1]

\* the join loop goes on with the next thread and, after the last one, to
\* `_scan_status['state'] = 'idle'`
AfterJoin(r) ==
  IF run[r].j = Len(JoinOrder)
  THEN [run EXCEPT ![r].pc = "idle"]
  ELSE [run EXCEPT ![r].j = @ + 1]

\* run_scan: t.join(timeout=90) returns because the thread has finished
RunJoinFinished(r) ==
  /\ run[r].pc = "join"
  /\ pc[<<r, JoinOrder[run[r].j]>>] = "done"
  /\ run' = AfterJoin(r)
  /\ UNCHANGED <<lock, status, timers, posts, trigger>>
  /\ UNCHANGED <<mergeVars, scanVars>>
  /\ UNCHANGED auxVars

JoinBlocks == FALSE

\* t.join(timeout=90) returns after 90 s whatever the thread does
JoinTimesOut == TRUE

\* run_scan: t.join(timeout=90) returns after 90 s, the thread still running
RunJoinTimeout(r) ==
  /\ run[r].pc = "join"
  /\ JoinTimesOut
  /\ pc[<<r, JoinOrder[run[r].j]>>] # "done"
  /\ run' = AfterJoin(r)
  /\ UNCHANGED <<lock, status, timers, posts, trigger>>
  /\ UNCHANGED <<mergeVars, scanVars>>
  /\ UNCHANGED auxVars

\* run_scan: state = 'idle'
RunIdle(r) ==
  /\ run[r].pc = "idle"
  /\ status' = "idle"
  /\ run' = [run EXCEPT ![r].pc = "release",
                        ![r].atIdle = [store |-> store, processed |-> processed,
                                       queue |-> queue]]
  /\ UNCHANGED <<lock, timers, posts, trigger>>
  /\ UNCHANGED <<mergeVars, scanVars>>
  /\ UNCHANGED auxVars

AfterReleaseAlways(manual) == "sched"

\* run_scan: `if not manual: _schedule_scan()`, after the finally clause
AfterRelease(manual) == IF manual THEN "done" ELSE "sched"

\* run_scan: finally: _scan_lock.release()
RunRelease(r) ==
  /\ run[r].pc = "release"
  /\ lock' = 0
  /\ run' = [run EXCEPT ![r].pc = AfterRelease(run[r].manual)]
  /\ UNCHANGED <<status, timers, posts, trigger>>
  /\ UNCHANGED <<mergeVars, scanVars>>
  /\ UNCHANGED auxVars

\* run_scan: if not manual: _schedule_scan()
RunSchedule(r) ==
  /\ run[r].pc = "sched"
  /\ timers' = timers + 1
  /\ run' = [run EXCEPT ![r].pc = "done"]
  /\ UNCHANGED <<lock, status, posts, trigger>>
  /\ UNCHANGED <<mergeVars, scanVars>>
  /\ UNCHANGED auxVars

\* scan_email / scan_slack / scan_gong return at once without credentials
ScannerUnconfigured(t) ==
  /\ pc[t] = "start"
  /\ t[2] \notin env
  /\ pc' = [pc EXCEPT ![t] = "done"]
  /\ UNCHANGED <<clock, store, nextId, pending, loc, calls, dupSkips, last, saves>>
  /\ UNCHANGED <<scanVars, orchVars>>
  /\ UNCHANGED auxVars

NoScn == [n |-> -1, pos |-> 0, cur |-> NoPid, seen |-> {}, outcome |-> "none",
          sender |-> <<>>, subject |-> ""]

AllPids ==
  {Pid("email", i) : i \in {"e1", "e2"}} \cup {Pid("slack", i) : i \in {"s1", "s2"}}
    \cup {Pid("gong", i) : i \in {"g1", "g2"}}

\* the ledger, queue and scanner state at start-up, _processed as loaded
InitScanVars(cfg, ledger) ==
  /\ env = cfg
  /\ processed = ledger
  /\ processedFile = ledger
  /\ queue = <<>>
  /\ scn = [t \in Threads |-> NoScn]
  /\ marks = [t \in Threads |-> [p \in AllPids |-> 0]]
  /\ fresh = [t \in Threads |-> {}]
  /\ failed = [t \in Threads |-> {}]

\* the orchestrator after start_scanners(): one timer armed, nothing running
InitOrchVars ==
  /\ lock = 0
  /\ status = "idle"
  /\ run = [r \in Runs |-> NoRun]
  /\ timers = 1
  /\ posts = 0
  /\ trigger = FALSE

\* ------------------------------------------------------------------------
\* The scanners
\* ------------------------------------------------------------------------
\* `sub in s` on strings
Contains(sub, s) ==
  \E i \in 0..(Len(s) - Len(sub)) : SubSeq(s, i + 1, i + Len(sub)) = sub

\* 'gemini-notes@google.com'
GeminiNotes ==
  <<"g", "e", "m", "i", "n", "i", "-", "n", "o", "t", "e", "s", "@", "g", "o", "o", "g", "l", "e", ".", "c", "o", "m">>

\* '@pactum.com'
AtPactumCom == <<"@", "p", "a", "c", "t", "u", "m", ".", "c", "o", "m">>

\* 'pactum.com'
PactumCom == <<"p", "a", "c", "t", "u", "m", ".", "c", "o", "m">>

\* skip_senders of _is_calendar_email
SkipSenders ==
  {<<"c", "a", "l", "e", "n", "d", "a", "r", "-", "n", "o", "t", "i", "f", "i", "c", "a", "t", "i", "o", "n", "@", "g", "o", "o", "g", "l", "e", ".", "c", "o", "m">>,
   <<"n", "o", "-", "r", "e", "p", "l", "y", "@", "g", "o", "o", "g", "l", "e", ".", "c", "o", "m">>,
   <<"n", "o", "r", "e", "p", "l", "y", "@">>,
   <<"d", "o", "n", "o", "t", "r", "e", "p", "l", "y", "@">>,
   <<"c", "a", "l", "e", "n", "d", "a", "r", ".", "g", "o", "o", "g", "l", "e", ".", "c", "o", "m">>,
   <<"a", "t", "l", "a", "s", "s", "i", "a", "n", ".", "n", "e", "t">>,
   <<"a", "t", "l", "a", "s", "s", "i", "a", "n", ".", "c", "o", "m">>,
   <<"n", "o", "t", "i", "f", "i", "c", "a", "t", "i", "o", "n", "s", "@">>,
   <<"d", "r", "i", "v", "e", "-", "s", "h", "a", "r", "e", "s", "-", "d", "m", "-", "n", "o", "r", "e", "p", "l", "y", "@", "g", "o", "o", "g", "l", "e", ".", "c", "o", "m">>}

\* the characters [\w.\-] matches, among those of the model's alphabet
DomainChars ==
  {"a", "b", "c", "d", "e", "f", "g", "h", "i", "j", "k", "l", "m", "n", "o",
   "p", "q", "r", "s", "t", "u", "v", "w", "x", "y", "z", "A", "B",
   "0", "1", "2", "3", "4", "5", "6", "7", "8", "9", "_", ".", "-"}

\* the longest prefix of s made of [\w.\-] characters
RECURSIVE DomainRun(_)
DomainRun(s) ==
  IF s # <<>> /\ Head(s) \in DomainChars
  THEN <<Head(s)>> \o DomainRun(Tail(s)) ELSE <<>>

\* re.search(r'@([\w.\-]+)', sender): group 1 of the leftmost match,
\* lower-cased, or '' when nothing matches
RECURSIVE SenderDomain(_)
SenderDomain(s) ==
  IF s = <<>> THEN <<>>
  ELSE IF Head(s) = "@" /\ DomainRun(Tail(s)) # <<>> THEN Lower(DomainRun(Tail(s)))
  ELSE SenderDomain(Tail(s))

\* _is_internal = 'pactum.com' in _sender_domain
IsInternal(sender) == Contains(PactumCom, SenderDomain(sender))

\* 'al@pactum.com'
Colleague == <<"a", "l", "@", "p", "a", "c", "t", "u", "m", ".", "c", "o", "m">>

\* From headers: an automated sender, the meeting-notes bot, a colleague, a
\* colleague writing the address in capitals, a vendor, and an outside domain
\* whose name ends in the letters of the internal one
SenderPool ==
  {<<"n", "o", "r", "e", "p", "l", "y", "@", "x", ".", "i", "o">>,
   <<"g", "e", "m", "i", "n", "i", "-", "n", "o", "t", "e", "s", "@", "g", "o", "o", "g", "l", "e", ".", "c", "o", "m">>,
   Colleague,
   <<"A", "B", "@", "p", "a", "c", "t", "u", "m", ".", "c", "o", "m">>,
   <<"a", "l", "@", "v", "e", "n", "d", "o", "r", ".", "i", "o">>,
   <<"a", "l", "@", "n", "o", "t", "p", "a", "c", "t", "u", "m", ".", "c", "o", "m">>}

\* what a scanner may retrieve; subject and body strings name classes.  A
\* message without Message-ID and a message with an invitation subject take
\* their branch before sender and body are looked at: one of each kind per
\* id is enough
EmailPool ==
  {m \in [id : {"", "e1", "e2"},
          subject : {"invite", "summary", "plain"},
          sender : SenderPool,
          body : {"calendar", "none", "one"}] :
     (m.id = "" \/ m.subject = "invite") =>
        (m.sender = Colleague /\ m.body = "none" /\ (m.id = "" => m.subject = "plain"))}

SlackPool == [ts : {"", "s1", "s2"}, recent : BOOLEAN, body : {"none", "one"}]

GongPool == [id : {"g1", "g2"}, body : {"empty", "none", "one"}]

\* extract_action_items on a body of each class
BodyItems(body) ==
  IF body = "one" THEN <<Item(<<"a">>, <<>>, "medium")>> ELSE <<>>

\* _is_calendar_email(subject, sender)
IsCalendarEmail(m) ==
  \/ m.subject = "invite"
  \/ \E x \in SkipSenders : Contains(x, Lower(m.sender))

\* _is_calendar_body(body)
IsCalendarBody(m) == m.body = "calendar"

EmailRouteOutsideFirst(m) ==
  IF m.id = "" THEN "no_id"
  ELSE IF IsProcessed(Pid("email", m.id)) THEN "ledger_skip"
  ELSE IF ~IsInternal(m.sender) THEN "queue"
  ELSE IF IsCalendarEmail(m) THEN "noise"
  ELSE IF Contains(AtPactumCom, Lower(m.sender)) /\ m.subject = "summary" THEN "queue"
  ELSE IF IsCalendarBody(m) THEN "noise"
  ELSE "extract"

\* the branch of scan_email's loop body a message takes
EmailRoute(m) ==
  IF m.id = "" THEN "no_id"
  ELSE IF IsProcessed(Pid("email", m.id)) THEN "ledger_skip"
  ELSE IF IsCalendarEmail(m) THEN "noise"
  ELSE IF Contains(GeminiNotes, Lower(m.sender)) THEN "queue"
  ELSE IF Contains(AtPactumCom, Lower(m.sender)) /\ m.subject = "summary" THEN "queue"
  ELSE IF IsCalendarBody(m) THEN "noise"
  ELSE IF ~IsInternal(m.sender) THEN "queue"
  ELSE "extract"

\* the branch of scan_slack's loop body a message takes
SlackRoute(t, m) ==
  IF m.ts = "" \/ ~m.recent \/ m.ts \in scn[t].seen THEN "filtered"
  ELSE IF IsProcessed(Pid("slack", m.ts)) THEN "ledger_skip"
  ELSE "extract"

\* the loop takes the next message: its id and what became of it
Taken(t, pid, outcome) ==
  [scn EXCEPT ![t].pos = @ + 1, ![t].cur = pid, ![t].outcome = outcome,
              ![t].sender = <<>>, ![t].subject = ""]

\* the same, for a message handed to the extractor: its From header
TakenFrom(t, pid, outcome, sender) ==
  [Taken(t, pid, outcome) EXCEPT ![t].sender = sender]

\* the same, for an e-mail that is routed: its From and Subject headers
TakenMail(t, pid, outcome, m) ==
  [TakenFrom(t, pid, outcome, m.sender) EXCEPT ![t].subject = m.subject]

mergeRest == <<clock, store, nextId, loc, calls, dupSkips, last, saves>>

\* `continue` before anything is done with the message
Skip(t, pid, outcome) ==
  /\ scn' = Taken(t, pid, outcome)
  /\ UNCHANGED <<env, processed, processedFile, queue, marks, fresh, failed>>
  /\ UNCHANGED <<pc, pending>>

\* the message is judged not actionable and marked
Noise(t, pid, taken) ==
  /\ scn' = taken
  /\ MarkProcessed(t, pid)
  /\ fresh' = [fresh EXCEPT ![t] = @ \cup {pid}]
  /\ UNCHANGED <<env, queue, failed>>
  /\ UNCHANGED <<pc, pending>>

\* queue_for_ingestion, then mark_processed; or queue_for_ingestion raises
Queue(t, pid, m) ==
  /\ fresh' = [fresh EXCEPT ![t] = @ \cup {pid}]
  /\ \/ /\ scn' = TakenMail(t, pid, "queued", m)
        /\ queue' = Append(queue, pid)
        /\ MarkProcessed(t, pid)
        /\ UNCHANGED failed
     \/ /\ scn' = TakenMail(t, pid, "error", m)
        /\ failed' = [failed EXCEPT ![t] = @ \cup {pid}]
        /\ UNCHANGED <<queue, processed, processedFile, marks>>
  /\ UNCHANGED env
  /\ UNCHANGED <<pc, pending>>

\* for item in extract_action_items(...): the candidates wait to be merged
Extract(t, pid, taken, items) ==
  /\ scn' = taken
  /\ fresh' = [fresh EXCEPT ![t] = @ \cup {pid}]
  /\ pending' = [pending EXCEPT ![t] = items]
  /\ pc' = [pc EXCEPT ![t] = "items"]
  /\ UNCHANGED <<env, processed, processedFile, queue, marks, failed>>

\* a scanner's retrieval of its message list fails: the cycle aborts
Abort(t) ==
  /\ pc' = [pc EXCEPT ![t] = "done"]
  /\ scn' = [scn EXCEPT ![t].outcome = "fetch_failed"]
  /\ UNCHANGED <<env, processed, processedFile, queue, marks, fresh, failed>>
  /\ UNCHANGED pending

RECURSIVE SumN(_)
SumN(T) ==
  IF T = {} THEN 0
  ELSE LET t == CHOOSE x \in T : TRUE
       IN  (IF scn[t].n > 0 THEN scn[t].n ELSE 0) + SumN(T \ {t})

\* the number of messages retrieved so far
Retrieved == SumN(Threads)

\* a scanner's retrieval returns n messages
Listed(t, n) ==
  /\ Retrieved + n <= MaxMsgs
  /\ pc' = [pc EXCEPT ![t] = "loop"]
  /\ scn' = [scn EXCEPT ![t].n = n]
  /\ UNCHANGED <<env, processed, processedFile, queue, marks, fresh, failed>>
  /\ UNCHANGED pending

\* scan_email: connect, login, select, search
EmailConnect(t) ==
  /\ pc[t] = "start" /\ t[2] = "email" /\ t[2] \in env
  /\ \/ Abort(t)
     \/ \E n \in 0..MaxMsgs : Listed(t, n)
  /\ UNCHANGED <<mergeRest, orchVars>>
  /\ UNCHANGED auxVars

\* scan_email: one pass of `for num in nums[-50:]` up to the merge loop
EmailMessage(t) ==
  /\ pc[t] = "loop" /\ t[2] = "email"
  /\ scn[t].pos < scn[t].n
  /\ \/ Skip(t, NoPid, "fetch_failed")
     \/ \E m \in EmailPool :
          LET pid == Pid("email", m.id)
              route == EmailRoute(m)
          IN  CASE route = "no_id" -> Skip(t, NoPid, "no_id")
                [] route = "ledger_skip" -> Skip(t, pid, "ledger_skip")
                [] route = "noise" -> Noise(t, pid, TakenMail(t, pid, "noise", m))
                [] route = "queue" -> Queue(t, pid, m)
                [] route = "extract" ->
                     Extract(t, pid, TakenMail(t, pid, "extract", m), BodyItems(m.body))
  /\ UNCHANGED <<mergeRest, orchVars>>
  /\ UNCHANGED auxVars

\* scan_slack: the search.messages request
SlackSearch(t) ==
  /\ pc[t] = "start" /\ t[2] = "slack" /\ t[2] \in env
  /\ \/ Abort(t)
     \/ \E n \in 0..MaxMsgs : Listed(t, n)
  /\ UNCHANGED <<mergeRest, orchVars>>
  /\ UNCHANGED auxVars

\* scan_slack: one pass of `for msg in matches` up to the merge loop
SlackMessage(t) ==
  /\ pc[t] = "loop" /\ t[2] = "slack"
  /\ scn[t].pos < scn[t].n
  /\ \E m \in SlackPool :
       LET pid == Pid("slack", m.ts)
           route == SlackRoute(t, m)
       IN  CASE route = "filtered" -> Skip(t, NoPid, "filtered")
             [] route = "ledger_skip" ->
                  /\ scn' = [Taken(t, pid, "ledger_skip") EXCEPT ![t].seen = @ \cup {m.ts}]
                  /\ UNCHANGED <<env, processed, processedFile, queue, marks,
                                 fresh, failed>>
                  /\ UNCHANGED <<pc, pending>>
             [] route = "extract" ->
                  /\ scn' = [Taken(t, pid, "extract") EXCEPT ![t].seen = @ \cup {m.ts}]
                  /\ fresh' = [fresh EXCEPT ![t] = @ \cup {pid}]
                  /\ pending' = [pending EXCEPT ![t] = BodyItems(m.body)]
                  /\ pc' = [pc EXCEPT ![t] = "items"]
                  /\ UNCHANGED <<env, processed, processedFile, queue, marks, failed>>
  /\ UNCHANGED <<mergeRest, orchVars>>
  /\ UNCHANGED auxVars

\* scan_gong: the /v2/calls request
GongList(t) ==
  /\ pc[t] = "start" /\ t[2] = "gong" /\ t[2] \in env
  /\ \/ Abort(t)
     \/ \E n \in 0..MaxMsgs : Listed(t, n)
  /\ UNCHANGED <<mergeRest, orchVars>>
  /\ UNCHANGED auxVars

\* the transcript request of a call raises: logged, then mark_processed(pid)
TranscriptFailed(t, pid) ==
  /\ scn' = Taken(t, pid, "fetch_failed")
  /\ MarkProcessed(t, pid)
  /\ fresh' = [fresh EXCEPT ![t] = @ \cup {pid}]
  /\ failed' = [failed EXCEPT ![t] = @ \cup {pid}]
  /\ UNCHANGED <<env, queue>>
  /\ UNCHANGED <<pc, pending>>

\* scan_gong: one pass of `for call in calls` up to the merge loop
GongCall(t) ==
  /\ pc[t] = "loop" /\ t[2] = "gong"
  /\ scn[t].pos < scn[t].n
  /\ \E c \in GongPool, ok \in BOOLEAN :
       LET pid == Pid("gong", c.id)
       IN  IF IsProcessed(pid) THEN Skip(t, pid, "ledger_skip")
           ELSE IF ~ok THEN TranscriptFailed(t, pid)
           ELSE IF c.body = "empty" THEN Noise(t, pid, Taken(t, pid, "empty"))
           ELSE Extract(t, pid, TakenFrom(t, pid, "extract", <<>>), BodyItems(c.body))
  /\ UNCHANGED <<mergeRest, orchVars>>
  /\ UNCHANGED auxVars

\* the merge loop of a message is over: mark_processed(pid)
FinishItems(t) ==
  /\ pc[t] = "items"
  /\ pending[t] = <<>>
  /\ scn[t].cur # NoPid
  /\ MarkProcessed(t, scn[t].cur)
  /\ pc' = [pc EXCEPT ![t] = "loop"]
  /\ UNCHANGED <<env, queue, scn, fresh, failed>>
  /\ UNCHANGED <<pending, mergeRest, orchVars>>
  /\ UNCHANGED auxVars

\* load_tasks or save_tasks raises inside add_auto_task; the scanner's except
\* clause: scan_email goes on with the next message, scan_slack leaves its
\* loop, scan_gong logs and marks the call processed
AddRaise(t) ==
  /\ pc[t] \in {"add_load", "add_save"}
  /\ pending' = [pending EXCEPT ![t] = <<>>]
  /\ loc' = [loc EXCEPT ![t] = NoLoc]
  /\ failed' = [failed EXCEPT ![t] = @ \cup {scn[t].cur}]
  /\ scn' = [scn EXCEPT ![t].outcome = "error"]
  /\ CASE t[2] = "email" ->
            /\ pc' = [pc EXCEPT ![t] = "loop"]
            /\ UNCHANGED <<processed, processedFile, marks>>
       [] t[2] = "slack" ->
            /\ pc' = [pc EXCEPT ![t] = "done"]
            /\ UNCHANGED <<processed, processedFile, marks>>
       [] t[2] = "gong" ->
            /\ pc' = [pc EXCEPT ![t] = "loop"]
            /\ MarkProcessed(t, scn[t].cur)
  /\ UNCHANGED <<env, queue, fresh>>
  /\ UNCHANGED <<clock, store, nextId, calls, dupSkips, last, saves, orchVars>>
  /\ UNCHANGED auxVars

\* the scanner's loop is exhausted and the scanner returns
ScanFinish(t) ==
  /\ pc[t] = "loop"
  /\ scn[t].pos = scn[t].n
  /\ pc' = [pc EXCEPT ![t] = "done"]
  /\ UNCHANGED <<pending, mergeRest, scanVars, orchVars>>
  /\ UNCHANGED auxVars

InitMergeCommon ==
  /\ clock = [today |-> StartDate, ticks |-> 0]
  /\ store \in {EmptyStore, [today |-> <<UserTask>>, longterm |-> <<>>]}
  /\ nextId = 1
  /\ pending = [t \in Threads |-> <<>>]
  /\ loc = [t \in Threads |-> NoLoc]
  /\ calls = 0
  /\ dupSkips = 0
  /\ last = NoLast
  /\ saves = <<>>
  /\ InitScanVars(Kinds, {})
  /\ InitOrchVars
  /\ InitAux

\* the scanners of one cycle, each at its merge loop
InitMerge ==
  /\ InitMergeCommon
  /\ pc = [t \in Threads |-> IF t[1] = 1 THEN "items" ELSE "unborn"]

\* one scanner alone: its calls are sequential
InitSeq ==
  /\ InitMergeCommon
  /\ pc = [t \in Threads |-> IF t = <<1, "email">> THEN "items" ELSE "unborn"]

NextMerge ==
  \/ \E t \in Threads : Candidate(t)
  \/ \E t \in Threads : MergeCall(t)
  \/ \E t \in Threads : MergeLoad(t)
  \/ \E t \in Threads : MergeSave(t)

NextSeq ==
  \/ NextMerge
  \/ Tick

\* concurrent add_auto_task calls on one day
SpecMerge == InitMerge /\ [][NextMerge]_vars

\* sequential add_auto_task calls, across midnight
SpecSeq == InitSeq /\ [][NextSeq]_vars


\* ------------------------------------------------------------------------
\* Claims about add_auto_task
\* ------------------------------------------------------------------------
TextsUnique(tasks) ==
  \A i, j \in DOMAIN AllTasks(tasks) :
    i # j => Lower(AllTasks(tasks)[i].text) # Lower(AllTasks(tasks)[j].text)

\* C1: starting from a store without two tasks of the same lower-cased text,
\* in every state reachable by add_auto_task calls, sequential or interleaved
\* between load_tasks and save_tasks, no two tasks of 'today' and 'longterm'
\* together have the same lower-cased text.
C1_TextsUnique == TextsUnique(store)

\* C1 witness: two writers saved tasks of the same lower-cased text one after
\* the other, the second from a snapshot taken before the first saved.
C1_Witness ==
  /\ Len(saves) = 2
  /\ Lower(saves[1].task.text) = Lower(saves[2].task.text)
  /\ store # EmptyStore

CountText(tasks, text) ==
  Cardinality({i \in DOMAIN AllTasks(tasks) : Lower(AllTasks(tasks)[i].text) = Lower(text)})

\* the step is the return of a call that follows, with no other call in
\* between, a call given the same text up to letter case
SecondOfSame == last'.n = last.n + 1 /\ last.n > 0 /\ Lower(last'.raw) = Lower(last.raw)

KnownDates ==
  {<<y, m, d>> : y \in {2026, 2027}, m \in {1, 12}, d \in {1, 2, 3, 30, 31}}

\* the column the claim prescribes for a due date string on the day today_str
ClaimedColumn(due_date, today_str) ==
  IF \E d, n \in KnownDates :
       /\ IsoFormat(d) = due_date
       /\ IsoFormat(n) = today_str
       /\ DateAfter(d, n)
  THEN "longterm" ELSE "today"

OtherColumn(col) == IF col = "longterm" THEN "today" ELSE "longterm"

\* C3: every accepted candidate's task is appended to 'longterm' iff its due
\* date is present and strictly after the current date of the call; with no
\* due date, a due date of today or a past one it is appended to 'today'.
C3_BucketPlacement ==
  [][\A t \in Threads :
       (pc[t] = "add_save" /\ pc'[t] = "items") =>
         LET col == ClaimedColumn(loc[t].due, loc[t].today_str)
         IN  /\ store'[col] # <<>>
             /\ store'[col][Len(store'[col])] = loc[t].task
             /\ loc[t].task.due = loc[t].due
             /\ store'[OtherColumn(col)] = loc[t].snap[OtherColumn(col)]]_vars

\* C3 witness: 'longterm' holds a task, and 'today' holds a task with a due
\* date (of the day of the call or before it) and one without.
C3_Witness ==
  /\ store.longterm # <<>>
  /\ \E x \in Range(store.today) : x.auto /\ x.due # <<>>
  /\ clock.ticks = 1

\* C5: when two add_auto_task calls with different texts read the same
\* snapshot and both save, the store afterwards is that snapshot plus the
\* second writer's task only: the first writer's task is lost.
C5_LastWriterWins ==
  (/\ Len(saves) = 2
   /\ saves[1].snap = saves[2].snap
   /\ Lower(saves[1].task.text) # Lower(saves[2].task.text))
  => /\ store = AppendTo(saves[2].snap, saves[2].col, saves[2].task)
     /\ saves[1].task \notin Range(AllTasks(store))

\* C5 witness: two writers with different texts saved from the same snapshot.
C5_Witness ==
  /\ Len(saves) = 2
  /\ saves[1].snap = saves[2].snap
  /\ Lower(saves[1].task.text) # Lower(saves[2].task.text)
  /\ saves[2].task \in Range(AllTasks(store))


\* ------------------------------------------------------------------------
\* The orchestrator alone: no scanner is configured
\* ------------------------------------------------------------------------
\* the server at rest with no scanner configured
InitServer ==
  /\ clock = [today |-> StartDate, ticks |-> 0]
  /\ store = EmptyStore
  /\ nextId = 1
  /\ pc = [t \in Threads |-> "unborn"]
  /\ pending = [t \in Threads |-> <<>>]
  /\ loc = [t \in Threads |-> NoLoc]
  /\ calls = 0
  /\ dupSkips = 0
  /\ last = NoLast
  /\ saves = <<>>
  /\ InitScanVars({}, {})
  /\ InitOrchVars

InitOrch == InitServer /\ InitAux

NextOrch ==
  \/ TimerFire
  \/ ManualPost
  \/ ManualPostBusy
  \/ \E r \in Runs : RunAcquire(r)
  \/ \E r \in Runs : RunStart(r)
  \/ \E r \in Runs : RunJoinFinished(r)
  \/ \E r \in Runs : RunJoinTimeout(r)
  \/ \E r \in Runs : RunIdle(r)
  \/ \E r \in Runs : RunRelease(r)
  \/ \E r \in Runs : RunSchedule(r)
  \/ \E t \in Threads : ScannerUnconfigured(t)

SpecOrch == InitOrch /\ [][NextOrch]_vars

\* ------------------------------------------------------------------------
\* Claims about the orchestrator
\* ------------------------------------------------------------------------
\* run r is between its lock acquisition and its lock release
Holding(r) == run[r].pc \in {"locked", "join", "idle", "release"}

\* C4: at most one run_scan is between lock acquisition and lock release; a
\* manual or scheduled trigger that arrives while a scan is running is
\* dropped: it starts no scanner thread, arms no timer, and never runs again.
C4_OneScanAtATime ==
  /\ [](/\ Cardinality({r \in Runs : Holding(r)}) <= 1
        /\ \A r \in Runs : Holding(r) => lock = r
        /\ \A r \in Runs : run[r].pc = "dropped" =>
             \A k \in Kinds : pc[<<r, k>>] = "unborn")
  /\ [][/\ \A r \in Runs :
             (run[r].pc = "acquire" /\ run'[r].pc # "acquire" /\ lock # 0) =>
                /\ run'[r].pc = "dropped"
                /\ pc' = pc /\ timers' = timers /\ lock' = lock
        /\ \A r \in Runs : run[r].pc = "dropped" => run'[r] = run[r]
        /\ (posts' # posts) => (run' = run /\ pc' = pc /\ timers' = timers)]_vars

\* C4 witness: while one run_scan held the lock and waited for its scanners,
\* another run_scan was dropped and a POST /api/scan was turned away.
C4_Witness ==
  /\ \E r \in Runs : run[r].pc = "dropped"
  /\ \E r \in Runs : Holding(r) /\ run[r].pc = "join"
  /\ posts = 1

\* C16: a scheduled run_scan that acquired the lock arms exactly one timer,
\* after it released the lock; a manual run arms none and nothing else arms
\* one; so at most one scheduled-scan timer is pending at any time.
C16_OneTimer ==
  /\ [](timers <= 1)
  /\ [][/\ timers' > timers =>
             /\ timers' = timers + 1
             /\ \E r \in Runs :
                  /\ ~run[r].manual /\ run[r].pc = "sched" /\ run'[r].pc = "done"
                  /\ lock # r
        /\ \A r \in Runs :
             (run[r].pc = "release" /\ run'[r].pc # "release") =>
                run'[r].pc = (IF run[r].manual THEN "done" ELSE "sched")
        /\ \A r \in Runs :
             (run[r].pc = "sched" /\ run'[r].pc # "sched") => timers' = timers + 1
        /\ \A r \in Runs :
             (run[r].manual /\ run'[r] # run[r]) => timers' = timers]_vars

\* C16 witness: a scheduled run has finished and armed the timer now pending;
\* a manual run has finished as well.
C16_Witness ==
  /\ timers = 1
  /\ \E r \in Runs : ~run[r].manual /\ run[r].pc = "done"
  /\ \E r \in Runs : run[r].manual /\ run[r].pc = "done"


\* ------------------------------------------------------------------------
\* One scan cycle with all three scanners configured
\* ------------------------------------------------------------------------
\* ids marked in an earlier cycle or process lifetime
OldIds == {Pid("email", "e1"), Pid("slack", "s1"), Pid("gong", "g1")}

InitScan ==
  /\ clock = [today |-> StartDate, ticks |-> 0]
  /\ store = EmptyStore
  /\ nextId = 1
  /\ pc = [t \in Threads |-> "unborn"]
  /\ pending = [t \in Threads |-> <<>>]
  /\ loc = [t \in Threads |-> NoLoc]
  /\ calls = 0
  /\ dupSkips = 0
  /\ last = NoLast
  /\ saves = <<>>
  /\ InitScanVars(Kinds, OldIds)
  /\ InitOrchVars
  /\ InitAux

NextScan ==
  \/ TimerFire
  \/ \E r \in Runs : RunAcquire(r)
  \/ \E r \in Runs : RunStart(r)
  \/ \E t \in Threads : EmailConnect(t)
  \/ \E t \in Threads : EmailMessage(t)
  \/ \E t \in Threads : SlackSearch(t)
  \/ \E t \in Threads : SlackMessage(t)
  \/ \E t \in Threads : GongList(t)
  \/ \E t \in Threads : GongCall(t)
  \/ \E t \in Threads : AddCall(t)
  \/ \E t \in Threads : AddLoad(t)
  \/ \E t \in Threads : AddSave(t)
  \/ \E t \in Threads : AddRaise(t)
  \/ \E t \in Threads : FinishItems(t)
  \/ \E t \in Threads : ScanFinish(t)

SpecScan == InitScan /\ [][NextScan]_vars

\* ------------------------------------------------------------------------
\* The first scan cycle, whose e-mail scanner may hang
\* ------------------------------------------------------------------------
\* only the e-mail scanner is configured
InitHang ==
  /\ clock = [today |-> StartDate, ticks |-> 0]
  /\ store = EmptyStore
  /\ nextId = 1
  /\ pc = [t \in Threads |-> "unborn"]
  /\ pending = [t \in Threads |-> <<>>]
  /\ loc = [t \in Threads |-> NoLoc]
  /\ calls = 0
  /\ dupSkips = 0
  /\ last = NoLast
  /\ saves = <<>>
  /\ InitScanVars({"email"}, {})
  /\ InitOrchVars
  /\ InitAux

\* scan_email's search returns a short list
EmailConnectFew(t) == EmailConnect(t) /\ scn'[t].n <= MaxHangMsgs

NextHang ==
  \/ TimerFire
  \/ \E r \in Runs : RunAcquire(r)
  \/ \E r \in Runs : RunStart(r)
  \/ \E r \in Runs : RunJoinFinished(r)
  \/ \E r \in Runs : RunJoinTimeout(r)
  \/ \E r \in Runs : RunIdle(r)
  \/ \E r \in Runs : RunRelease(r)
  \/ \E t \in Threads : ScannerUnconfigured(t)
  \/ \E t \in Threads : EmailConnectFew(t)
  \/ \E t \in Threads : EmailMessage(t)
  \/ \E t \in Threads : AddCall(t)
  \/ \E t \in Threads : AddLoad(t)
  \/ \E t \in Threads : AddSave(t)
  \/ \E t \in Threads : AddRaise(t)
  \/ \E t \in Threads : FinishItems(t)
  \/ \E t \in Threads : ScanFinish(t)

\* the run_scan thread always gets to run and each join returns within its
\* 90 seconds; nothing is assumed of the scanner threads
FairHang ==
  \A r \in Runs :
    /\ WF_vars(RunStart(r))
    /\ WF_vars(RunJoinFinished(r) \/ RunJoinTimeout(r))
    /\ WF_vars(RunIdle(r))
    /\ WF_vars(RunRelease(r))

SpecHang == InitHang /\ [][NextHang]_vars /\ FairHang

InMerger(t) == pc[t] \in {"add_load", "add_save"}

\* C6 as stated: no two add_auto_task executions started by the scanners of
\* the same run_scan overlap in time.
C6_Original ==
  \A t, u \in Threads :
    (t # u /\ t[1] = u[1]) => ~(InMerger(t) /\ InMerger(u))

C8_LedgerSkip ==
  [][\A t \in Threads :
       (/\ scn'[t].pos = scn[t].pos + 1
        /\ scn'[t].cur # NoPid
        /\ scn'[t].cur \in processed) =>
          /\ pc'[t] = "loop"
          /\ pending' = pending
          /\ queue' = queue
          /\ store' = store
          /\ processed' = processed
          /\ processedFile' = processedFile
          /\ marks' = marks]_vars

\* C8 witness: two scanners have each skipped a message found in the ledger.
C8_Witness ==
  \E t, u \in Threads :
    /\ t # u
    /\ scn[t].outcome = "ledger_skip" /\ scn[t].cur \in OldIds
    /\ scn[u].outcome = "ledger_skip" /\ scn[u].cur \in OldIds

\* C9 as stated: when the retrieval of a message's content fails, the
\* message's id is not added to the ledger.
C9_Original ==
  [][\A t \in Threads :
       (scn'[t].pos = scn[t].pos + 1 /\ scn'[t].outcome = "fetch_failed") =>
          processed' = processed]_vars

\* the domain of a bare address: what follows its last '@', lower-cased
RECURSIVE AddressDomain(_)
AddressDomain(s) ==
  IF "@" \notin Range(s) THEN <<>>
  ELSE IF "@" \in Range(Tail(s)) THEN AddressDomain(Tail(s))
  ELSE Lower(Tail(s))

\* the address is in the trusted internal domain pactum.com
InTrustedDomain(sender) == AddressDomain(sender) = PactumCom

\* C11 as stated: scan_email hands a message body to extract_action_items
\* only when the sender's address is in the trusted internal domain; content
\* from a sender outside it reaches the ingest queue or nothing.
C11_Original ==
  \A t \in Threads :
    (t[2] = "email" /\ scn[t].outcome = "extract") => InTrustedDomain(scn[t].sender)

\* C10 as stated: an exception raised while one message is processed skips
\* that message only, so a scanner that retrieved its list of messages has
\* taken every one of them when it returns.
C10_Original ==
  \A t \in Threads :
    (pc[t] = "done" /\ scn[t].n >= 0) => scn[t].pos = scn[t].n

\* ------------------------------------------------------------------------
\* The task files under load_tasks, save_tasks and crashes
\* ------------------------------------------------------------------------
InitFile ==
  /\ InitServer
  /\ \E main, backup \in FilePool0 : InitFileVars(main, backup)
  /\ InitCompQuiet
  /\ InitLedQuiet
  /\ ex = NoEx

NextFile ==
  \/ \E data \in DataPool : SaveOpen(data)
  \/ SaveWrite
  \/ SaveReplace
  \/ Crash
  \/ LoadTasks

SpecFile == InitFile /\ [][NextFile]_vars

\* C12: in every step of a save_tasks execution, a kill of the process at any
\* point of it included, tasks.json is left holding what it held when
\* save_tasks was called or comes to hold the complete new text.
C12_AtomicSave ==
  [][fio.op = "save" =>
       \/ files'[DataFile] = fio.main
       \/ files'[DataFile] = File(Dump(fio.data))]_vars

\* C12 witness: the process was killed after the temporary file was written
\* in full and before the rename; tasks.json holds its previous, complete and
\* different content.
C12_Witness ==
  /\ fio.op = "idle" /\ fio.crashes = 1
  /\ files[TmpFile] = File(Dump(fio.data))
  /\ files[DataFile] = fio.main
  /\ fio.main.exists /\ Parses(fio.main.content)
  /\ fio.main.content # Dump(fio.data)

\* the step is a whole load_tasks call
LoadStep == fio.op = "idle" /\ fio'.op = "idle" /\ fio'.n = fio.n + 1

\* the file holds nothing, blanks only, or text that is not JSON
Unreadable(f) == f.exists /\ (Strip(f.content) = <<>> \/ ~Parses(f.content))

\* the backup holds JSON for a dict whose 'today' is a list
StructurallyValid(f) ==
  /\ f.exists
  /\ \E v \in JsonPool :
       Dump(v) = f.content /\ v.kind = "dict" /\ "today" \in v.keys /\ v.todayIsList

InitQueue ==
  /\ InitServer
  /\ InitFileVars(Absent, Absent)
  /\ InitLedQuiet
  /\ ex = NoEx
  /\ comp = NoComp
  /\ \E first \in {NoItem} \cup {[suffix |-> "json", text |-> x] : x \in ItemTexts} :
       inq = [n \in ItemNames |-> IF n = 1 THEN first ELSE NoItem]

NextQueue ==
  \/ \E n \in ItemNames : QueueCreate(n)
  \/ \E n \in ItemNames : QueueWrite(n)
  \/ Poll
  \/ ItemRead
  \/ AgentDone
  \/ PollReturn

SpecQueue == InitQueue /\ [][NextQueue]_vars

C15_Original ==
  \A n \in ItemNames :
    /\ comp.handed[n] <= 1
    /\ (comp.pc = "sleep" /\ inq[n].text = "notes" /\ inq[n].suffix \in {"gone", "err"})
         => comp.handed[n] = 1

\* ------------------------------------------------------------------------
\* The ledger under mark_processed calls of several threads
\* ------------------------------------------------------------------------
InitLedger == InitServer /\ InitAux

\* the scanner threads of one cycle
Markers == {t \in Threads : t[1] = 1}

NextLedger ==
  \/ \E t \in Markers, pid \in AllPids : MarkEnter(t, pid)
  \/ \E t \in Markers : MarkAdd(t)
  \/ \E t \in Markers : MarkList(t)
  \/ \E t \in Markers : MarkWrite(t)

SpecLedger == InitLedger /\ [][NextLedger]_vars

\* the ids for which a mark_processed call has returned
Marked == {p \in AllPids : \E t \in Threads : marks[t][p] > 0}

AllReturned == \A t \in Threads : mk[t].pc = "idle"

\* C18: after any sequence of mark_processed calls the persisted ledger
\* holds no more ids than the cap.
C18_FileCapped == Cardinality(processedFile) <= ScaledCap

\* C18 witness: more ids than the cap have been marked and the file holds
\* as many ids as the cap.
C18_Witness ==
  /\ AllReturned
  /\ Cardinality(Marked) > ScaledCap
  /\ Cardinality(processedFile) = ScaledCap

\* C19 as stated, for the id just marked: when more ids than the cap have
\* been marked the ids dropped from the file are the oldest ones, so after
\* every mark_processed the file holds the id just marked.
C19_Original ==
  [][\A t \in Threads :
       (mk[t].pc = "write" /\ mk'[t].pc = "idle") => mk[t].pid \in processedFile']_vars

\* C20: when all mark_processed calls made by several threads have returned
\* and no more ids than the cap are in the ledger, the in-memory set and
\* the persisted file both contain every marked id.
C20_NoIdLost ==
  (AllReturned /\ Cardinality(processed) <= ScaledCap) =>
     (Marked \subseteq processed /\ Marked \subseteq processedFile)

\* C20 witness: two threads have marked one id each and both ids are in the
\* set and in the file.
C20_Witness ==
  /\ AllReturned
  /\ \E t, u \in Threads :
       /\ t # u
       /\ \E p, q \in AllPids : p # q /\ marks[t][p] = 1 /\ marks[u][q] = 1
  /\ Cardinality(Marked) = 2
  /\ Marked \subseteq processedFile

\* ------------------------------------------------------------------------
\* The scanners' use of the extractor: strip, extract, merge every item
\* ------------------------------------------------------------------------
\* a text of n characters that starts with prefix and goes on in short words
Padded(prefix, n) ==
  prefix \o [i \in 1..(n - Len(prefix)) |->
               IF (n - Len(prefix) - i) % 3 = 2 THEN " " ELSE "x"]

Msg(src, body) == [src |-> src, body |-> body]

\* message texts whose extraction depends on the day: due phrases with
\* every weekday name, a slash date without a year, end of day
DatedMsgs ==
  {Msg("slack", Chars("Please send the report by Friday")),
   Msg("email", Chars("The report is due next Tuesday, Justin")),
   Msg("gong", Chars("Justin, can you follow up with Drew on pricing by next Friday?")),
   Msg("email", Chars("Justin, can you follow up with Drew by Monday?\nThis is urgent.")),
   Msg("gong", Chars("Justin, reply by Sunday. Justin, pay the invoice by Wednesday. Justin, sign the lease by Thursday. Justin, book the room by Saturday.")),
   Msg("email", Chars("Justin, the report is due 03/05.")),
   Msg("email", Chars("Justin, the slides are due on Tuesday.")),
   Msg("slack", Chars("Justin, send the report by EOD"))}

\* message texts with a due phrase that names the end of the month
MonthEndMsgs ==
  {Msg("email", Chars("Justin, send the invoice by end of month"))}

\* message texts with a due phrase that names a month and a day, with and
\* without a year
MonthNameMsgs ==
  {Msg("email", Chars("Justin, the report is due March 5.")),
   Msg("slack", Chars("Justin, the report is due March 5 2025.")),
   Msg("email", Chars("Justin, the report is due February 29.")),
   Msg("email", Chars("Justin, the report is due Feb 29th, 2028."))}

\* message texts whose extraction is the same on every day: lines at the
\* length limits, lines with the same key, signals in the following line
\* only, end of day outside a due phrase, and replies with quoted history
\* and separators
PlainMsgs ==
  {Msg("slack", Chars("Justin?")),
   Msg("slack", Chars("Justin:?")),
   Msg("slack", Padded(Chars("Justin, x"), 300)),
   Msg("slack", Padded(Chars("Justin, x"), 301)),
   Msg("slack", Chars("Justin?\nJustin:?\n") \o Padded(Chars("Justin, a"), 300)
                  \o <<"\n">> \o Padded(Chars("Justin, b"), 301)),
   Msg("slack", Chars("Justin, sign the lease.\nJustin, send the report.\nJUSTIN, sign the lease.\n")
                  \o Padded(Chars("Justin, c"), 90) \o Chars(" alpha\n")
                  \o Padded(Chars("Justin, c"), 90) \o Chars(" beta")),
   Msg("email", Chars("The budget is approved now.\nJustin, thanks.")),
   Msg("slack", Chars("Justin, send the report EOD")),
   Msg("slack", Chars("Justin, call the vendor on Friday")),
   Msg("email", Chars("New paragraph.\n\nOn Tue, Jan 2 at 3:00 PM A <a@x.com> wrote:\n> old content")),
   Msg("email", Chars("Justin, sign the lease.\n> old content\n\nThanks\n___\nDrew")),
   Msg("email", Chars("> old content\n---\nJustin, sign the lease.")),
   Msg("email", Chars("Thanks, Justin will do.\n---"))}

\* pairs of texts that differ in a hard-skipped line only
VariantPairs ==
  {<<Msg("email", Chars("Budget numbers look fine now.\nOwner: Justin")),
     Msg("email", Chars("Budget numbers look fine now.\nOwner: Drew"))>>,
   <<Msg("email", Chars("Please review the budget numbers now\nWhen: due Friday")),
     Msg("email", Chars("Please review the budget numbers now\nWhen: urgent"))>>,
   <<Msg("email", Chars("Hi Justin,\nPlease review the budget numbers")),
     Msg("email", Chars("Hi Drew,\nPlease review the budget numbers"))>>}

\* texts that arrive more than once
RepeatMsgs ==
  {Msg("slack", Chars("Please send the report by Friday")),
   Msg("email", Chars("The budget is approved now.\nJustin, thanks."))}

\* what the scanners have to extract from, in the order they get to it
InboxPool ==
  {<<m>> : m \in DatedMsgs \cup PlainMsgs \cup MonthEndMsgs \cup MonthNameMsgs}
    \cup VariantPairs
    \cup {[i \in 1..n |-> m] : n \in 2..MaxRepeats, m \in RepeatMsgs}

\* the days a behaviour starts on: a week across the end of the year and
\* the days around 5 March
DatePool ==
  {<<2026, 12, 28>>, <<2026, 12, 29>>, <<2026, 12, 30>>, <<2026, 12, 31>>,
   <<2027, 1, 1>>, <<2027, 1, 2>>, <<2027, 1, 3>>,
   <<2026, 3, 4>>, <<2026, 3, 5>>, <<2026, 3, 6>>}

\* the first day, the last day and the day before it of every month of a
\* common year and of a leap year, and the last day of a February of a
\* century year
MonthEndDates ==
  UNION {{<<y, m, 1>>, <<y, m, DaysInMonth(y, m) - 1>>, <<y, m, DaysInMonth(y, m)>>} :
           y \in {2027, 2028}, m \in 1..12}
    \cup {<<2100, 2, 28>>}

\* the days around 5 March, the end of a year, the days around 29 February
\* of a leap year and a day of a century year
MonthNameDates ==
  {<<2026, 3, 4>>, <<2026, 3, 5>>, <<2026, 3, 6>>, <<2026, 12, 31>>,
   <<2028, 2, 28>>, <<2028, 2, 29>>, <<2028, 3, 1>>, <<2100, 2, 1>>}

StartDates(inbox) ==
  IF \E i \in DOMAIN inbox : inbox[i] \in MonthEndMsgs THEN MonthEndDates
  ELSE IF \E i \in DOMAIN inbox : inbox[i] \in MonthNameMsgs THEN MonthNameDates
  ELSE IF \E i \in DOMAIN inbox : inbox[i] \in DatedMsgs THEN DatePool
  ELSE {StartDate}

\* the content a scanner passes to extract_action_items: scan_email the
\* body without quoted history, scan_slack the text under a From line,
\* scan_gong the utterances as 'speaker: sentences' lines
ContentOf(src, body) ==
  CASE src = "email" -> StripEmailQuotes(body)
    [] src = "slack" -> Chars("From: someone in #dm\n\n") \o body
    [] src = "gong"  -> Chars("Drew: ") \o body

\* the lines no hard-skip filter discards
NotSkipped(lines) == SelectSeq(lines, LAMBDA l : ~HardSkip(l))

\* the lines at the places idx with their cleaned texts
LinesAt(lines, idx) ==
  [k \in DOMAIN idx |-> [line |-> lines[idx[k]], text |-> Clean(lines[idx[k]])]]

\* the lines that reach `due = _extract_due(ctx)`, with their cleaned texts
Reached(lines) ==
  LinesAt(lines, SelectSeq([i \in DOMAIN lines |-> i],
                           LAMBDA i : Survives(lines[i], Context(lines, i))))

SeenKeysKept == ex.seen

\* seen_keys = set(), at the start of every call
SeenKeys == {}

\* body_new = _strip_email_quotes(body) and extract_action_items(...): the
\* scanner of the message's source takes the next message and extracts
ExtractCall(t) ==
  /\ ex.inbox # <<>>
  /\ t = <<1, Head(ex.inbox).src>>
  /\ \A u \in Threads : pending[u] = <<>> /\ pc[u] \in {"items", "unborn"}
  /\ \E content \in {ContentOf(Head(ex.inbox).src, Head(ex.inbox).body)} :
     \E found \in {ExtractActionItems(content, clock.today, SeenKeys)} :
       /\ ex' = [inbox |-> Tail(ex.inbox), calls |-> ex.calls + 1,
                 src |-> Head(ex.inbox).src, body |-> Head(ex.inbox).body,
                 content |-> content, today |-> clock.today,
                 lines |-> SplitLines(content),
                 kept |-> NotSkipped(SplitLines(content)),
                 reached |-> Reached(SplitLines(content)), found |-> found,
                 seen |-> ex.seen \cup {c.key : c \in Range(found)},
                 prev |-> [content |-> ex.content, today |-> ex.today,
                           kept |-> ex.kept, found |-> ex.found]]
       /\ pending' = [pending EXCEPT ![t] = [i \in DOMAIN found |-> found[i].item]]
  /\ UNCHANGED <<clock, store, nextId, pc, loc, calls, dupSkips, last, saves>>
  /\ UNCHANGED <<scanVars, orchVars>>
  /\ UNCHANGED <<fileVars, compVars, ledVars>>

InitExtract ==
  /\ \E inbox \in InboxPool :
       /\ ex = [NoEx EXCEPT !.inbox = inbox]
       /\ \E d \in StartDates(inbox) : clock = [today |-> d, ticks |-> 0]
  /\ store = EmptyStore
  /\ nextId = 1
  /\ pc = [t \in Threads |-> IF t[1] = 1 THEN "items" ELSE "unborn"]
  /\ pending = [t \in Threads |-> <<>>]
  /\ loc = [t \in Threads |-> NoLoc]
  /\ calls = 0
  /\ dupSkips = 0
  /\ last = NoLast
  /\ saves = <<>>
  /\ InitScanVars(Kinds, {})
  /\ InitOrchVars
  /\ InitFileVars(Absent, Absent)
  /\ InitCompQuiet
  /\ InitLedQuiet

NextExtract ==
  \/ \E t \in Threads : ExtractCall(t)
  \/ \E t \in Threads : MergeCall(t)
  \/ \E t \in Threads : MergeLoad(t)
  \/ \E t \in Threads : MergeSave(t)
  \/ Tick

\* messages extracted from and merged one after the other, across midnight
SpecExtract == InitExtract /\ [][NextExtract]_vars


\* ------------------------------------------------------------------------
\* Claims about extract_action_items and _strip_email_quotes
\* ------------------------------------------------------------------------
\* the first 80 characters of a text, lower-cased
First80Lowered(text) == Lower(SubSeq(text, 1, IF Len(text) < 80 THEN Len(text) ELSE 80))

\* C21: every item extract_action_items returns has a text of 8 to 300
\* characters; a line that passes the other checks is dropped when its
\* cleaned text is shorter than 8 or longer than 300 characters (7, 301) and
\* kept when it is 8 to 300 characters long (8, 300), it or the first line
\* with its lower-cased first 80 characters.
C21_LengthLimits ==
  /\ \A k \in DOMAIN ex.found :
       Len(ex.found[k].item.text) >= 8 /\ Len(ex.found[k].item.text) <= 300
  /\ \A i \in DOMAIN ex.reached :
       IF Len(ex.reached[i].text) < 8 \/ Len(ex.reached[i].text) > 300
       THEN \A k \in DOMAIN ex.found : ex.found[k].line # ex.reached[i].line
       ELSE \E k \in DOMAIN ex.found :
              First80Lowered(ex.found[k].item.text) = First80Lowered(ex.reached[i].text)

\* lines of 7, 8, 300 and 301 characters have passed the other checks and
\* the ones of 8 and 300 characters are what was returned
C21_Witness ==
  /\ {Len(ex.reached[i].text) : i \in DOMAIN ex.reached} = {7, 8, 300, 301}
  /\ {Len(ex.found[k].item.text) : k \in DOMAIN ex.found} = {8, 300}

SlashRolledOver(mt, t, today) ==
  IF DateAfter(today, <<today[1], ToInt(Group(mt, t, 1)), ToInt(Group(mt, t, 2))>>)
  THEN <<today[1] + 1, ToInt(Group(mt, t, 1)), ToInt(Group(mt, t, 2))>>
  ELSE <<today[1], ToInt(Group(mt, t, 1)), ToInt(Group(mt, t, 2))>>

\* whether the slash date of the lowered text t has no year
SlashWithoutYear(mt, t) == mt.ok /\ Group(mt, t, 3) = <<>>

\* C23: an item whose due date comes from a slash date without a year is due
\* on that month and day of the current year, or of the next year when that
\* day of the current year is before the day of the extraction.
C23_Original ==
  \A k \in DOMAIN ex.found :
    (/\ ex.found[k].via = "slash"
     /\ SlashWithoutYear(Search(SlashRe, Lower(ex.found[k].ctx), {}, 1), Lower(ex.found[k].ctx)))
    => ex.found[k].item.due_date =
         IsoFormat(SlashRolledOver(Search(SlashRe, Lower(ex.found[k].ctx), {}, 1),
                                   Lower(ex.found[k].ctx), ex.today))


\* the lowered due phrase of a sentence, mt being the match of
\* _due_phrase_re in it
PhraseOf(mt, sentence) == Lower(SubSeq(sentence, mt.a, mt.e - 1))

\* the number date.weekday() gives for the weekday the phrase names after
\* by, on or due
WeekdayNamed(mt, phrase) ==
  CHOOSE n \in 0..6 : Chars(WeekdayNames[n + 1]) = Group(mt, phrase, 1)

WeekdayOfPhrase(phrase) == WeekdayNamed(Search(WeekdayRe, phrase, {}, 1), phrase)

\* the number of the weekday named in the due phrase of the context ctx
WeekdayDue(ctx) == WeekdayOfPhrase(PhraseOf(Search(DuePhraseRe, ctx, {"I"}, 1), ctx))

\* C24: an item whose due date comes from "by/on/due [next] <weekday>" is
\* due on the first date strictly after the day of the extraction that falls
\* on that weekday, 1 to 7 days ahead.
C24_WeekdayStrictlyAfter ==
  \A k \in DOMAIN ex.found :
    ex.found[k].via = "weekday" =>
      \E n \in 1..7 :
        /\ ex.found[k].item.due_date = IsoFormat(PlusDays(ex.today, n))
        /\ Weekday(PlusDays(ex.today, n)) = WeekdayDue(ex.found[k].ctx)
        /\ \A j \in 1..(n - 1) : Weekday(PlusDays(ex.today, j)) # WeekdayDue(ex.found[k].ctx)

\* a phrase that names the weekday of the day of the extraction has given a
\* date seven days ahead, in the next year
C24_Witness ==
  \E k \in DOMAIN ex.found :
    /\ ex.found[k].via = "weekday"
    /\ Weekday(ex.today) = WeekdayDue(ex.found[k].ctx)
    /\ ex.found[k].item.due_date = IsoFormat(PlusDays(ex.today, 7))
    /\ PlusDays(ex.today, 7)[1] = ex.today[1] + 1

\* r'\bw\b' for a literal word
WholeWord(w) == Cat(<<WordB, Lit(w), WordB>>)

\* whether the text holds EOD or COB as a word, in any case
HoldsEod(text) == \E w \in {"eod", "cob"} : Found(WholeWord(w), text, {"I"})

\* whether _due_phrase_re matches in ctx and the text matched holds EOD or COB
EodInPhrase(mt, ctx) == mt.ok /\ HoldsEod(PhraseOf(mt, ctx))

\* C25: an item whose due phrase, the text _due_phrase_re matches in its
\* line joined with the following line, holds EOD or COB is due on the day
\* of the extraction.
C25_EodPhraseIsToday ==
  \A k \in DOMAIN ex.found :
    EodInPhrase(Search(DuePhraseRe, ex.found[k].ctx, {"I"}, 1), ex.found[k].ctx)
      => ex.found[k].item.due_date = IsoFormat(ex.today)

\* an item with EOD in its due phrase has been returned with the day of the
\* extraction as its due date
C25_Witness ==
  \E k \in DOMAIN ex.found :
    /\ EodInPhrase(Search(DuePhraseRe, ex.found[k].ctx, {"I"}, 1), ex.found[k].ctx)
    /\ HoldsEod(ex.found[k].line)
    /\ ex.found[k].item.due_date = IsoFormat(ex.today)

\* C25 as stated: an item whose line holds EOD or COB is due on the day of
\* the extraction.
C25_Original ==
  \A k \in DOMAIN ex.found :
    HoldsEod(ex.found[k].line) => ex.found[k].item.due_date = IsoFormat(ex.today)

\* the places in the list last returned of the items with this text whose
\* due date comes from a weekday name
FromWeekday(text) ==
  {k \in DOMAIN ex.found : ex.found[k].item.text = text /\ ex.found[k].via = "weekday"}

\* whether the text holds neither an urgency nor a time-pressure word
Calm(text) == ~Found(UrgentRe, Lower(text), {}) /\ ~Found(PressingRe, Lower(text), {})

\* C26: when add_auto_task saves, on the day of the extraction, a candidate
\* whose due date came from a weekday name, the task is in 'longterm' and
\* not in 'today' afterwards, and its priority is 'medium' when the
\* candidate's line joined with the following line holds no urgency or
\* time-pressure word.
C26_WeekdayGoesLongterm ==
  [][\A t \in Threads :
       (/\ pc[t] = "add_save"
        /\ pc'[t] = "items"
        /\ loc[t].today_str = IsoFormat(ex.today)
        /\ FromWeekday(loc[t].raw) # {})
       => /\ loc[t].task \in Range(store'.longterm)
          /\ loc[t].task \notin Range(store'.today)
          /\ \A k \in FromWeekday(loc[t].raw) :
               Calm(ex.found[k].ctx) => loc[t].task.priority = "medium"]_vars

\* a candidate with a due date from a weekday name and no urgency word has
\* been merged on the day of its extraction and is in 'longterm' as 'medium'
C26_Witness ==
  /\ clock.today = ex.today
  /\ \E k \in DOMAIN ex.found :
       /\ ex.found[k].via = "weekday"
       /\ Calm(ex.found[k].ctx)
       /\ \E i \in DOMAIN store.longterm :
            /\ store.longterm[i].text = ex.found[k].item.text
            /\ store.longterm[i].due = ex.found[k].item.due_date
            /\ store.longterm[i].priority = "medium"

\* a line of three or more dashes and underscores
SeparatorLine(line) ==
  /\ Len(RStrip(line)) >= 3
  /\ \A p \in DOMAIN RStrip(line) : line[p] \in {"-", "_"}

\* a line that begins with a quote marker
QuotedLine(line) == Strip(line) # <<>> /\ Head(Strip(line)) = ">"

\* a line of the form "On ... wrote:"
AttributionLine(line) ==
  /\ Found(Cat(<<Bol, Lit("on"), Sp>>), line, {"I"})
  /\ Found(Cat(<<Lit("wrote:"), Star(Sp), Eol>>), line, {"I"})

\* C27: what _strip_email_quotes returns holds no "On ... wrote:" line, no
\* line that begins with a quote marker and no separator line of three or
\* more dashes or underscores, and for a new paragraph followed by an
\* attribution line and a quoted line it is the new paragraph.
C27_Original ==
  (ex.calls >= 1 /\ ex.src = "email") =>
    /\ \A n \in DOMAIN SplitNewlines(ex.content) :
         /\ ~AttributionLine(SplitNewlines(ex.content)[n])
         /\ ~QuotedLine(SplitNewlines(ex.content)[n])
         /\ ~SeparatorLine(SplitNewlines(ex.content)[n])
    /\ ex.body = Chars("New paragraph.\n\nOn Tue, Jan 2 at 3:00 PM A <a@x.com> wrote:\n> old content")
         => ex.content = Chars("New paragraph.")

\* after holds the tasks of before in their buckets and order and one more
\* task, this one, at the end of one bucket
OneAppended(before, after, task) ==
  \E col \in {"today", "longterm"} :
    /\ after[col] = before[col] \o <<task>>
    /\ \A other \in {"today", "longterm"} \ {col} : after[other] = before[other]

\* a call of add_auto_task returns without saving: empty text or a duplicate
ReturnsUnsaved ==
  /\ last'.n = last.n + 1
  /\ Strip(last'.raw) = <<>> \/ last'.skips = dupSkips + 1

ItemsOf(found) == [k \in DOMAIN found |-> found[k].item]

\* C29: two calls of extract_action_items on the same day with contents
\* that have the same lines apart from hard-skipped ones return the same
\* items, with the same due dates and priorities.
C29_Original ==
  (ex.calls >= 2 /\ ex.prev.kept = ex.kept /\ ex.prev.today = ex.today)
    => ItemsOf(ex.prev.found) = ItemsOf(ex.found)

\* whether the text holds the name or a trigger phrase
HasSignal(text) == Found(NameRe, text, {"I"}) \/ Found(TriggerRe, text, {"I"})

\* C30: every candidate extract_action_items returns comes from a line
\* that, joined with the line that follows it in the content, holds the
\* name or a trigger phrase.
C30_SignalInLineOrNext ==
  \A k \in DOMAIN ex.found :
    /\ HasSignal(ex.found[k].ctx)
    /\ \/ ex.found[k].ctx = ex.found[k].line
       \/ \E n \in DOMAIN ex.lines :
            ex.found[k].ctx = ex.found[k].line \o <<" ">> \o ex.lines[n]

\* a candidate has been returned whose line holds no signal itself, the
\* name being in the line after it
C30_Witness ==
  \E k \in DOMAIN ex.found :
    /\ ~HasSignal(ex.found[k].line)
    /\ HasSignal(ex.found[k].ctx)

\* C30 as stated: every candidate comes from a line that itself holds the
\* name or a trigger phrase.
C30_Original == \A k \in DOMAIN ex.found : HasSignal(ex.found[k].line)


\* ------------------------------------------------------------------------
\* Claims about the order and the keys of the items returned
\* ------------------------------------------------------------------------
\* the place of the first line that reached the length check with a text of
\* 8 to 300 characters and this key, 0 when there is none
FirstWithKey(key) ==
  Least({i \in DOMAIN ex.reached :
           /\ Len(ex.reached[i].text) >= 8
           /\ Len(ex.reached[i].text) <= 300
           /\ First80Lowered(ex.reached[i].text) = key})

\* the line the k-th item returned comes from
PlaceOf(k) == FirstWithKey(First80Lowered(ex.found[k].item.text))

\* C31: the items extract_action_items returns are in the order of their
\* lines, no two of them have the same lower-cased first 80 characters, and
\* each comes from the first line with its key.
C31_OrderedFirstOfKey ==
  /\ \A j, k \in DOMAIN ex.found :
       j # k => First80Lowered(ex.found[j].item.text) # First80Lowered(ex.found[k].item.text)
  /\ \A k \in DOMAIN ex.found :
       /\ PlaceOf(k) # 0
       /\ ex.found[k].item.text = ex.reached[PlaceOf(k)].text
       /\ ex.found[k].line = ex.reached[PlaceOf(k)].line
  /\ \A j, k \in DOMAIN ex.found : j < k => PlaceOf(j) < PlaceOf(k)

\* five lines have reached the key check, two of them with the key of an
\* earlier line (one in other letter case, one that differs after the 80th
\* character), and the three first ones have been returned in their order
C31_Witness ==
  /\ Len(ex.reached) = 5
  /\ Len(ex.found) = 3
  /\ <<PlaceOf(1), PlaceOf(2), PlaceOf(3)>> = <<1, 2, 4>>
  /\ ex.reached[3].text # ex.reached[1].text
  /\ ex.reached[5].text # ex.reached[4].text
  /\ Len(ex.reached[4].text) > 80

\* ------------------------------------------------------------------------
\* Claims about the end of the month and about month names
\* ------------------------------------------------------------------------
\* the last day of the month of a day, from the length of the month
LastDayOf(day) == <<day[1], day[2], DaysInMonth(day[1], day[2])>>

\* C32: an item whose due phrase names the end of the month is due on the
\* last calendar day of the month of the day of the extraction, whatever
\* the length of the month.
C32_EndOfMonthIsLastDay ==
  \A k \in DOMAIN ex.found :
    ex.found[k].via = "month" =>
      ex.found[k].item.due_date = IsoFormat(LastDayOf(ex.today))

\* the end of the month has been resolved on 29 February of a leap year,
\* which is the day itself
C32_Witness ==
  \E k \in DOMAIN ex.found :
    /\ ex.found[k].via = "month"
    /\ ex.today = <<2028, 2, 29>>
    /\ ex.found[k].item.due_date = IsoFormat(<<2028, 2, 29>>)

\* the match of the month-name pattern in the due phrase of the k-th item
\* returned
MonthMatch(k) ==
  Search(MonthRe,
         PhraseOf(Search(DuePhraseRe, ex.found[k].ctx, {"I"}, 1), ex.found[k].ctx), {}, 1)

\* the phrase the match was found in
MonthPhrase(k) == PhraseOf(Search(DuePhraseRe, ex.found[k].ctx, {"I"}, 1), ex.found[k].ctx)

\* whether the due phrase of the k-th item names a month and a day and no
\* keyword or weekday that is tried before the month name
NamesMonthDay(k) ==
  /\ Search(DuePhraseRe, ex.found[k].ctx, {"I"}, 1).ok
  /\ MonthMatch(k).ok
  /\ ex.found[k].via \notin {"eod", "week", "month", "weekday"}

\* the first date with this month and day that exists and is not before
\* today; a 29 February is at most eight years ahead
NearestOnOrAfter(month, day, today) ==
  LET y == Least({yy \in today[1]..(today[1] + 8) :
                    /\ ValidDate(yy, month, day)
                    /\ ~DateAfter(today, <<yy, month, day>>)})
  IN  <<y, month, day>>

\* the date a month-name phrase stands for: the date of the year it
\* carries when that date exists and is not before today, otherwise the
\* nearest date with its month and day on or after today
MonthTarget(year, month, day, today) ==
  IF year # <<>> /\ ValidDate(ToInt(year), month, day)
       /\ ~DateAfter(today, <<ToInt(year), month, day>>)
  THEN <<ToInt(year), month, day>>
  ELSE NearestOnOrAfter(month, day, today)

\* C33 as stated: an item whose due phrase names a month and a day is due
\* on the nearest date with that month and day on or after the day of the
\* extraction, 29 February and phrases that carry a year included.
C33_Original ==
  \A k \in DOMAIN ex.found :
    NamesMonthDay(k) =>
      ex.found[k].item.due_date =
        IsoFormat(MonthTarget(Group(MonthMatch(k), MonthPhrase(k), 3),
                              MonthNumber(Group(MonthMatch(k), MonthPhrase(k), 1)),
                              ToInt(Group(MonthMatch(k), MonthPhrase(k), 2)),
                              ex.today))

\* ------------------------------------------------------------------------
\* Claims about the routes of an e-mail
\* ------------------------------------------------------------------------
\* in this step scanner t of scan_email takes a message that has a
\* Message-ID and is not in the ledger
Evaluates(t) ==
  /\ t[2] = "email"
  /\ scn'[t].pos = scn[t].pos + 1
  /\ scn'[t].cur # NoPid
  /\ scn'[t].cur \notin processed

\* the message is marked and left: nothing queued, nothing extracted
SkippedAsNoise(t) ==
  /\ queue' = queue
  /\ pc'[t] = "loop" /\ pending'[t] = pending[t]
  /\ scn'[t].cur \in processed'

\* the message is written to the ingest queue once and not extracted from
QueuedOnce(t) ==
  /\ queue' = Append(queue, scn'[t].cur)
  /\ pc'[t] = "loop" /\ pending'[t] = pending[t]

\* the message's body is handed to extract_action_items and nothing queued
PassedToExtractor(t) ==
  /\ queue' = queue
  /\ pc'[t] = "items"

\* queue_for_ingestion raised: nothing queued, extracted or marked
QueueRaised(t) ==
  /\ queue' = queue
  /\ pc'[t] = "loop" /\ pending'[t] = pending[t]
  /\ scn'[t].cur \notin processed'

\* how many of the conditions hold
HowMany(conds) == Cardinality({i \in DOMAIN conds : conds[i]})

Executing(r) == ~run[r].manual /\ run[r].pc \notin {"unborn", "done", "dropped"}

\* C35 as stated: once start_scanners has run, a scheduled run_scan is
\* executing or a timer for the next scheduled run is pending, in every
\* state.
C35_Original == timers > 0 \/ \E r \in Runs : Executing(r)

\* scanner thread t has been started and has not returned
Running(t) == pc[t] \notin {"unborn", "done"}

\* C36 as stated: no two instances of the same scanner are running at the
\* same time.
C36_Original ==
  \A r, q \in Runs, k \in Kinds :
    r # q => ~(Running(<<r, k>>) /\ Running(<<q, k>>))

C38_MarkedStaysProcessed ==
  /\ [](\A p \in Marked : IsProcessed(p))
  /\ [][\A p \in AllPids : IsProcessed(p) => p \in processed']_vars

\* more ids than the cap have been marked, all calls have returned, the
\* file has lost one of the ids and is_processed is still true of it
C38_Witness ==
  /\ AllReturned
  /\ Cardinality(Marked) > ScaledCap
  /\ \E p \in Marked : p \notin processedFile /\ IsProcessed(p)

\* ------------------------------------------------------------------------
\* The task files when nothing but load_tasks and save_tasks writes them
\* ------------------------------------------------------------------------
\* what a run of the program can have left as a backup: no file, or a file
\* that holds nothing, blanks or a truncated dump
OwnBackups == {Absent, File(<<>>), File(<<" ">>), File(<<"{", "today", "[">>)}

\* tasks.json as it is found, the backup as an earlier run left it
InitOwnFiles ==
  /\ InitServer
  /\ \E main \in FilePool0, backup \in OwnBackups : InitFileVars(main, backup)
  /\ InitCompQuiet
  /\ InitLedQuiet
  /\ ex = NoEx

SpecOwnFiles == InitOwnFiles /\ [][NextFile]_vars

\* the file holds the complete text of a JSON value
CompleteJson(f) == f.exists /\ \E v \in JsonPool : Dump(v) = f.content

====
